---- MODULE Spec2Model ----
(***************************************************************************)
(* Model of the skene-cli analysis engine: the multi-step pipeline         *)
(* executor (strategies/mod.rs), its context store (strategies/context.rs) *)
(* and the three step kinds (strategies/steps/*.rs), together with the     *)
(* text functions the steps apply to model output, the sandboxed file      *)
(* access (codebase/mod.rs) and the analyze command that chains the        *)
(* shipped pipelines (main.rs).                                            *)
(*                                                                         *)
(* Text is modelled as a sequence of lexical tokens.  Every token stands   *)
(* for a fixed, non-empty run of characters:                               *)
(*    "{" "}" "[" "]" "," ":"   the JSON punctuation characters            *)
(*    "0"                       the JSON number 0                          *)
(*    "'a.py'" ...              the JSON string literal "a.py" ...         *)
(*    " "                       one whitespace character                   *)
(*    "x"                       a prose letter                             *)
(*    "<fence>"                 a Markdown fence, three backticks          *)
(*    "json"                    the four letters json                      *)
(* No token contains a character of another token, so str::find / rfind /  *)
(* starts_with / trim on the characters agree with the same searches on    *)
(* the tokens, and offsets compare the same way (a token is >= 1 byte and  *)
(* the brackets are exactly 1 byte).  Whitespace between two tokens never  *)
(* changes whether serde_json accepts the text ("0" "0" is rejected with   *)
(* or without a blank between).                                            *)
(***************************************************************************)
EXTENDS Integers, Sequences, FiniteSets, TLC

VARIABLES
    steps,          \* MultiStepStrategy.steps: the pipeline being run
    seed,           \* initial_context: [some |-> BOOLEAN, data |-> ...]
    pc,             \* position of run_with_context: "start","loop","exec","done"
    i,              \* loop index of run_with_context (0-based, as in the code)
    context,        \* AnalysisContext: [request, data, metadata]
    result,         \* what run_with_context returned: [status, error]
    progressLog,    \* the on_progress calls made so far, in order
    invoked,        \* the step indices (1-based step_num) whose execute was called
    executing,      \* the step indices whose execute has been called and not returned
    completed,      \* the step indices whose execute returned Ok, in order
    written,        \* the context writes made by the steps so far: [key, value]
    llmCalls,       \* number of generate_content calls made during the run
    last,           \* observation of the last step execution (inputs, outcome)
    text,           \* harness: the text a pure text function is applied to
    extracted,      \* harness: result of extract_json(text)
    parsed,         \* harness: result of the File Selection response parsing
    hpc,            \* harness: "input" before the functions are applied, "applied" after
    root,           \* CodebaseExplorer.base_dir
    relative_path,  \* harness: the path string read_file is called with
    access,         \* harness: what read_file returned, and the file-system entry
    apc,            \* position of run_analyze: the stage it is at ("none": no analyze run)
    product_docs,   \* EngineInput.product_docs
    callback,       \* the on_progress closure the running pipeline was given
    outputs,        \* the EngineOutput lines printed on stdout so far
    started,        \* the stages whose pipeline was started, in order
    run_results,    \* the contexts the pipelines returned (ts_result, gf_result, ...)
    manifest_context, \* the context prepared for the manifest pipeline
    manifest_json,  \* Option<Value>: the manifest to write
    filesWritten,   \* the files written under output_dir, in order
    exit            \* how the process ended: "running", "ok", "error", "panic"

vars == <<steps, seed, pc, i, context, result, progressLog, invoked, executing,
          completed, written, llmCalls, last, text, extracted, parsed, hpc,
          root, relative_path, access, apc, product_docs, callback, outputs, started, run_results,
          manifest_context, manifest_json, filesWritten, exit>>

pipelineVars == <<steps, seed, pc, i, context, result, progressLog, invoked,
                  executing, completed, written, llmCalls, last>>

harnessVars == <<text, extracted, parsed, hpc, root, relative_path, access>>

pathVars == <<root, relative_path, access>>

\* the state of run_analyze apart from the lines printed
runVars == <<apc, product_docs, callback, started, run_results, manifest_context,
             manifest_json, filesWritten, exit>>

analyzeVars == <<apc, product_docs, callback, outputs, started, run_results,
                 manifest_context, manifest_json, filesWritten, exit>>

-----------------------------------------------------------------------------
(* Bounds *)

\* longest text (in tokens) the text functions are applied to in SpecExtract
MaxLen == 4

\* most components of a path string read_file is applied to in SpecPath
MaxPathLen == 3

\* largest max_files budget of a File Selection step
MaxBudget == 2

-----------------------------------------------------------------------------
(* Paths, tokens and texts *)

\* relative paths; Rank is their lexicographic order (String's Ord)
Paths == {"a.py", "b.py", "c.py"}

Rank(p) == CASE p = "a.py" -> 1 [] p = "b.py" -> 2 [] p = "c.py" -> 3 [] OTHER -> 0

StrTok == {"'a.py'", "'b.py'", "'c.py'", "'../d'"}

\* the string a JSON string literal token denotes
StrOf(t) ==
    CASE t = "'a.py'" -> "a.py" [] t = "'b.py'" -> "b.py" [] t = "'c.py'" -> "c.py"
      [] OTHER -> "../d"

Ws == " "

\* the Markdown fence (three backticks)
Fence == "<fence>"

\* the tokens of the texts the text functions are applied to exhaustively
Tok == {"{", "}", "[", "]", ",", ":", "0", Ws, "x", Fence, "json", "'a.py'"}

\* every text of at most n tokens
Texts(n) == UNION {[1..k -> Tok] : k \in 0..n}

-----------------------------------------------------------------------------
(* str helpers.  An Option<usize> is modelled as a 1-based position, 0 for  *)
(* None.                                                                    *)

Min(S) == CHOOSE m \in S : \A n \in S : m <= n

Max(S) == CHOOSE m \in S : \A n \in S : m >= n

\* str::find for a character set: the first position holding a token of S
Find(s, S) ==
    LET hits == {k \in 1..Len(s) : s[k] \in S}
    IN  IF hits = {} THEN 0 ELSE Min(hits)

\* str::rfind for a character set: the last position holding a token of S
RFind(s, S) ==
    LET hits == {k \in 1..Len(s) : s[k] \in S}
    IN  IF hits = {} THEN 0 ELSE Max(hits)

\* str::find for a string pattern: the first position where pat starts
FindStr(s, pat) ==
    LET hits == {k \in 1..(Len(s) - Len(pat) + 1) :
                    SubSeq(s, k, k + Len(pat) - 1) = pat}
    IN  IF hits = {} THEN 0 ELSE Min(hits)

\* str::starts_with for a character set
StartsWith(s, S) == Len(s) > 0 /\ s[1] \in S

\* str::trim: the text without its leading and trailing whitespace
Trim(s) ==
    LET solid == {k \in 1..Len(s) : s[k] # Ws}
    IN  IF solid = {} THEN <<>> ELSE SubSeq(s, Min(solid), Max(solid))

\* the tokens of s that are not whitespace, in order
RECURSIVE StripWs(_)
StripWs(s) ==
    IF s = <<>> THEN <<>>
    ELSE IF Head(s) = Ws THEN StripWs(Tail(s))
    ELSE <<Head(s)>> \o StripWs(Tail(s))

-----------------------------------------------------------------------------
(* serde_json::from_str.  The parsers below work on the whitespace-free     *)
(* token sequence and return the position after the value they read, 0 on   *)
(* a syntax error.                                                          *)

RECURSIVE ParseValue(_, _), ParseElems(_, _), ParseMembers(_, _)

ParseValue(s, k) ==
    IF k > Len(s) THEN 0
    ELSE IF s[k] \in StrTok \cup {"0"} THEN k + 1
    ELSE IF s[k] = "[" THEN
        IF k + 1 <= Len(s) /\ s[k + 1] = "]" THEN k + 2 ELSE ParseElems(s, k + 1)
    ELSE IF s[k] = "{" THEN
        IF k + 1 <= Len(s) /\ s[k + 1] = "}" THEN k + 2 ELSE ParseMembers(s, k + 1)
    ELSE 0

\* value ("," value)* "]"
ParseElems(s, k) ==
    LET j == ParseValue(s, k)
    IN  IF j = 0 \/ j > Len(s) THEN 0
        ELSE IF s[j] = "]" THEN j + 1
        ELSE IF s[j] = "," THEN ParseElems(s, j + 1)
        ELSE 0

\* string ":" value ("," string ":" value)* "}"
ParseMembers(s, k) ==
    IF k + 1 > Len(s) \/ s[k] \notin StrTok \/ s[k + 1] # ":" THEN 0
    ELSE LET j == ParseValue(s, k + 2)
         IN  IF j = 0 \/ j > Len(s) THEN 0
             ELSE IF s[j] = "}" THEN j + 1
             ELSE IF s[j] = "," THEN ParseMembers(s, j + 1)
             ELSE 0

\* serde_json::from_str::<Value>(s): Ok exactly when s is one JSON value,
\* whitespace allowed around it; the value is represented by its tokens
FromStrValue(s) ==
    LET t == StripWs(s)
    IN  IF ParseValue(t, 1) = Len(t) + 1
        THEN [ok |-> TRUE, val |-> t]
        ELSE [ok |-> FALSE, val |-> <<>>]

\* serde_json::from_str::<Vec<String>>(s): Ok exactly when s is a JSON array
\* whose elements are all strings; the value is the sequence of the strings
FromStrVecString(s) ==
    LET t == StripWs(s)
        n == Len(t)
        isArr == /\ ParseValue(t, 1) = n + 1
                 /\ t[1] = "["
                 /\ \A k \in 2..(n - 1) : t[k] \in StrTok \cup {","}
        elems == SelectSeq(SubSeq(t, 2, n - 1), LAMBDA c : c \in StrTok)
    IN  IF isArr
        THEN [ok |-> TRUE, files |-> [k \in 1..Len(elems) |-> StrOf(elems[k])]]
        ELSE [ok |-> FALSE, files |-> <<>>]

-----------------------------------------------------------------------------
(* extract_json (strategies/steps/analyze.rs).  Each tier returns           *)
(* [kind, val]: kind "ok" (the tier returned Ok(val)), "err" (the tier      *)
(* returned the parse error with ?)   or "skip" (control fell through to    *)
(* the next tier).                                                          *)

Openers == {"{", "["}

Closers == {"}", "]"}

Skip == [kind |-> "skip", val |-> <<>>]

\* return Ok(serde_json::from_str(s)?)
ReturnParsed(s) ==
    LET r == FromStrValue(s)
    IN  IF r.ok THEN [kind |-> "ok", val |-> r.val] ELSE [kind |-> "err", val |-> <<>>]

Tier1(t) ==
    IF StartsWith(t, Openers) THEN ReturnParsed(t) ELSE Skip

Tier2(t) ==
    LET start == FindStr(t, <<Fence, "json">>)
        after_start == SubSeq(t, start + 2, Len(t))
        end == FindStr(after_start, <<Fence>>)
    IN  IF start # 0 /\ end # 0
        THEN ReturnParsed(SubSeq(after_start, 1, end - 1))
        ELSE Skip

Tier3(t) ==
    LET start == FindStr(t, <<Fence>>)
        after_start == SubSeq(t, start + 1, Len(t))
        end == FindStr(after_start, <<Fence>>)
        content == Trim(SubSeq(after_start, 1, end - 1))
        r == FromStrValue(content)
    IN  IF start # 0 /\ end # 0 /\ StartsWith(content, Openers) /\ r.ok
        THEN [kind |-> "ok", val |-> r.val]
        ELSE Skip

Tier4(t) ==
    LET start == Find(t, Openers)
        end == RFind(t, Closers)
    IN  IF start # 0 /\ end # 0 /\ end > start
        THEN ReturnParsed(SubSeq(t, start, end))
        ELSE Skip

\* the tiers in the order the code tries them
Tiers(t) == <<Tier1(t), Tier2(t), Tier3(t), Tier4(t)>>

\* extract_json(text): the first tier that does not fall through decides;
\* when all fall through, Err("No JSON found")
extract_json(txt) ==
    LET t == Trim(txt)
        tiers == Tiers(t)
        decided == {k \in 1..4 : tiers[k].kind # "skip"}
    IN  IF decided = {} THEN [ok |-> FALSE, val |-> <<>>]
        ELSE LET d == tiers[Min(decided)]
             IN  [ok |-> d.kind = "ok", val |-> d.val]

-----------------------------------------------------------------------------
(* JSON values held by the context (serde_json::Value).  Every value is a   *)
(* record [t, s, r]:                                                        *)
(*   t = "array":  a JSON array of strings (s, r empty) or of file records  *)
(*                 (r, s empty); the empty array has both empty             *)
(*   t = "json":   any other JSON value, s its tokens                       *)
(*   t = "string": a JSON string holding the text s (Value::String)         *)

\* json!(list) for a Vec<String>
ArrayOfStrings(list) == [t |-> "array", s |-> list, r |-> <<>>]

\* json!(results) for a Vec of file records
ArrayOfRecords(recs) == [t |-> "array", s |-> <<>>, r |-> recs]

\* Value::String(text)
StringValue(txt) == [t |-> "string", s |-> txt, r |-> <<>>]

\* the Value serde_json parsed from the whitespace-free tokens toks
JsonValue(toks) ==
    LET v == FromStrVecString(toks)
    IN  IF v.ok THEN ArrayOfStrings(v.files)
        ELSE [t |-> "json", s |-> toks, r |-> <<>>]

\* serde_json::from_value::<Vec<String>>(v): Ok for an array of strings only
FromValueVecString(v) ==
    IF v.t = "array" /\ v.r = <<>>
    THEN [ok |-> TRUE, files |-> v.s]
    ELSE [ok |-> FALSE, files |-> <<>>]

\* placeholder where a record field holds no JSON value
NoValue == [t |-> "none", s |-> <<>>, r |-> <<>>]

-----------------------------------------------------------------------------
(* AnalysisContext (strategies/context.rs) *)

Keys ==
    {"files", "contents", "result", "tech_stack", "industry", "manifest",
     "current_growth_features", "revenue_leakage", "product_overview", "features",
     "docs_manifest", "tech_stack_files", "tech_stack_contents", "growth_files",
     "growth_contents", "revenue_files", "revenue_contents", "industry_files",
     "industry_contents", "overview_files", "overview_contents", "features_files",
     "features_contents"}

\* AnalysisMetadata::default()
DefaultMetadata ==
    [model_name |-> "", provider_name |-> "", total_steps |-> 0,
     files_read |-> <<>>, tokens_used |-> 0]

\* AnalysisContext::new(request)
NewContext(request) ==
    [request |-> request, data |-> [k \in {} |-> NoValue], metadata |-> DefaultMetadata]

\* AnalysisContext::get(key) is Some
Has(ctx, key) == key \in DOMAIN ctx.data

\* AnalysisContext::get(key), when it is Some
Get(ctx, key) == ctx.data[key]

\* a store that holds the written key alone after a write
SetAlone(ctx, key, value) ==
    [ctx EXCEPT !.data = [k \in {key} |-> value]]

\* a write that also replaces the request field
SetAndRequest(ctx, key, value) ==
    [ctx EXCEPT !.request = key,
                !.data = [k \in (DOMAIN ctx.data) \cup {key} |->
                             IF k = key THEN value ELSE ctx.data[k]]]

\* AnalysisContext::set(key, value): HashMap::insert
Set(ctx, key, value) ==
    [ctx EXCEPT !.data = [k \in (DOMAIN ctx.data) \cup {key} |->
                             IF k = key THEN value ELSE ctx.data[k]]]

-----------------------------------------------------------------------------
(* Errors and step outcomes.  A step ends in Ok(()), in Err(error) or in a  *)
(* panic; ctx is the context the step leaves behind, calls the number of    *)
(* generate_content calls it made.                                          *)

NoError == [msg |-> "", arg |-> ""]

Error(msg, arg) == [msg |-> msg, arg |-> arg]

Outcome(status, error, ctx, calls) ==
    [status |-> status, error |-> error, ctx |-> ctx, calls |-> calls]

-----------------------------------------------------------------------------
(* File Selection step (strategies/steps/select_files.rs) *)

Patterns == {"p1", "p2"}

\* what search_files can return for one pattern: Err (the glob pattern is
\* rejected) or Ok(matches); the matches only ever enter a HashSet, so they
\* are kept as a set
SearchResults ==
    {[ok |-> FALSE, matches |-> {}]} \cup {[ok |-> TRUE, matches |-> m] : m \in SUBSET Paths}

\* what generate_content can return
LlmFailed == [ok |-> FALSE, text |-> <<>>]

LlmOk(txt) == [ok |-> TRUE, text |-> txt]

\* every ordering of the set S (the orders a HashSet can be iterated in)
Orderings(S) ==
    {f \in [1..Cardinality(S) -> S] : \A a, b \in 1..Cardinality(S) : f[a] = f[b] => a = b}

\* x put in front whatever its rank
InsertFront(x, seq) == <<x>> \o seq

\* the sequence seq with x inserted before the first element ranked above it
RECURSIVE Insert(_, _)
Insert(x, seq) ==
    IF seq = <<>> THEN <<x>>
    ELSE IF Rank(x) <= Rank(Head(seq)) THEN <<x>> \o seq
    ELSE <<Head(seq)>> \o Insert(x, Tail(seq))

\* the list left as the HashSet was iterated: the sort is missing
SortSkipped(seq) == seq

\* candidate_list.sort(): ascending in String's order
RECURSIVE Sort(_)
Sort(seq) ==
    IF seq = <<>> THEN <<>> ELSE Insert(Head(seq), Sort(Tail(seq)))

\* the patterns of a step whose search failed, as positions in step.patterns
FailedSearches(step, search) ==
    {k \in 1..Len(step.patterns) : ~search[step.patterns[k]].ok}

\* the HashSet after every match of every pattern was inserted
Candidates(step, search) ==
    UNION {search[step.patterns[k]].matches : k \in 1..Len(step.patterns)}

\* iter.take(n).collect()
Take(seq, n) == SubSeq(seq, 1, IF n < Len(seq) THEN n ELSE Len(seq))

\* lines 59-67: the list chosen from the model's response, [status, files];
\* status "panic" when the slice json_str[json_start..json_end] has
\* json_start > json_end
ParseSelection(response, candidate_list, max_files) ==
    LET json_str == Trim(response)
        open == Find(json_str, {"["})
        close == RFind(json_str, {"]"})
        json_start == IF open = 0 THEN 0 ELSE open - 1
        json_end == IF close = 0 THEN Len(json_str) ELSE close
        json_part == SubSeq(json_str, json_start + 1, json_end)
        files == FromStrVecString(json_part)
    IN  IF json_start > json_end THEN [status |-> "panic", files |-> <<>>]
        ELSE IF files.ok THEN [status |-> "ok", files |-> files.files]
        ELSE [status |-> "ok", files |-> Take(candidate_list, max_files)]

\* the step with a failed generation call answered by the fallback list
SelectFilesExecuteForgiving(step, ctx, search, order, llm) ==
    LET candidate_list == Sort(order)
        chosen == ParseSelection(llm.text, candidate_list, step.max_files)
    IN  IF FailedSearches(step, search) # {}
        THEN Outcome("err", Error("glob pattern error", ""), ctx, 0)
        ELSE IF Len(candidate_list) <= step.max_files
        THEN Outcome("ok", NoError,
                     Set(ctx, step.output_key, ArrayOfStrings(candidate_list)), 0)
        ELSE IF ~llm.ok
        THEN Outcome("ok", NoError,
                     Set(ctx, step.output_key,
                         ArrayOfStrings(Take(candidate_list, step.max_files))), 1)
        ELSE IF chosen.status = "panic"
        THEN Outcome("panic", Error("slice index starts after end", ""), ctx, 1)
        ELSE Outcome("ok", NoError,
                     Set(ctx, step.output_key, ArrayOfStrings(chosen.files)), 1)

\* SelectFilesStep::execute.  search: what search_files returns per pattern;
\* order: the order the HashSet is iterated in; llm: what generate_content
\* returns if it is called
SelectFilesExecute(step, ctx, search, order, llm) ==
    LET candidate_list == Sort(order)
        chosen == ParseSelection(llm.text, candidate_list, step.max_files)
    IN  IF FailedSearches(step, search) # {}
        THEN Outcome("err", Error("glob pattern error", ""), ctx, 0)
        ELSE IF Len(candidate_list) <= step.max_files
        THEN Outcome("ok", NoError,
                     Set(ctx, step.output_key, ArrayOfStrings(candidate_list)), 0)
        ELSE IF ~llm.ok
        THEN Outcome("err", Error("generation failed", ""), ctx, 1)
        ELSE IF chosen.status = "panic"
        THEN Outcome("panic", Error("slice index starts after end", ""), ctx, 1)
        ELSE Outcome("ok", NoError,
                     Set(ctx, step.output_key, ArrayOfStrings(chosen.files)), 1)

-----------------------------------------------------------------------------
(* File access (codebase/mod.rs).  A path is read as its components.        *)

\* a path the model's response can name that no glob match can be
OutsidePath == "../d"

AllPaths == Paths \cup {OutsidePath}

\* A path is [abs, comps]: whether it starts at the root directory, and its
\* components, ".." and "." among them.  A path string as given to
\* read_file is [slashes, comps]: its leading '/' characters counted apart.

\* the path string of a model path name
Components(p) ==
    IF p = OutsidePath THEN [slashes |-> 0, comps |-> <<"..", "d">>]
    ELSE [slashes |-> 0, comps |-> <<p>>]

\* line 39: PathBuf::from(relative_path.trim_start_matches('/'))
TrimStartSlashes(rel) == [abs |-> FALSE, comps |-> rel.comps]

\* Path::join: an absolute path replaces the base
Join(base, path) ==
    IF path.abs THEN path ELSE [abs |-> base.abs, comps |-> base.comps \o path.comps]

\* PathClean::clean, component by component: "." is dropped, ".." removes
\* the normal component before it, is dropped at the root directory and is
\* kept at the start of a relative path
RECURSIVE CleanInto(_, _, _)
CleanInto(abs, done, comps) ==
    IF comps = <<>> THEN done
    ELSE IF Head(comps) = "." THEN CleanInto(abs, done, Tail(comps))
    ELSE IF Head(comps) = ".."
    THEN CleanInto(abs,
                   IF done # <<>> /\ done[Len(done)] # ".."
                   THEN SubSeq(done, 1, Len(done) - 1)
                   ELSE IF abs THEN done ELSE Append(done, ".."),
                   Tail(comps))
    ELSE CleanInto(abs, Append(done, Head(comps)), Tail(comps))

\* PathClean::clean: the empty relative path is "."
Clean(path) ==
    LET c == CleanInto(path.abs, <<>>, path.comps)
    IN  [abs |-> path.abs, comps |-> IF c = <<>> /\ ~path.abs THEN <<".">> ELSE c]

\* Path::starts_with: whole components, the root directory being one
PathStartsWith(path, prefix) ==
    /\ path.abs = prefix.abs
    /\ Len(path.comps) >= Len(prefix.comps)
    /\ SubSeq(path.comps, 1, Len(prefix.comps)) = prefix.comps

\* resolve_safe_path(relative_path) for an explorer with base_dir base:
\* [ok, path]
resolve_safe_path(base, rel) ==
    LET full_path == Clean(Join(base, TrimStartSlashes(rel)))
    IN  [ok |-> PathStartsWith(full_path, base), path |-> full_path]

\* CodebaseExplorer::new: the directories an explorer can be created for,
\* absolute or relative to the working directory, cleaned at line 33
BaseDirs ==
    {Clean(d) : d \in {[abs |-> TRUE, comps |-> <<"proj">>],
                       [abs |-> TRUE, comps |-> <<>>],
                       [abs |-> FALSE, comps |-> <<"proj">>],
                       [abs |-> FALSE, comps |-> <<".">>],
                       [abs |-> FALSE, comps |-> <<"..">>],
                       [abs |-> FALSE, comps |-> <<"..", "proj">>]}}

\* the base_dir of the explorer the pipelines are run with: an absolute
\* directory (the other directories are explored in SpecPath)
base_dir == [abs |-> TRUE, comps |-> <<"proj">>]

\* resolve_safe_path(p) is Ok for the explorer in use
ResolvesInside(p) == resolve_safe_path(root, Components(p)).ok

\* the size ceiling of the File Reading step, in bytes (String::len)
Ceiling == 50000

\* file contents: bytes is String::len, chars the number of characters,
\* boundary whether byte offset Ceiling is a character boundary, head the
\* number of characters that lie wholly within the first Ceiling bytes.
\* In order: ASCII text of Ceiling and of Ceiling + 1 characters; Ceiling
\* characters of which the last ASCII one is followed by a two-byte one cut
\* by the ceiling; Ceiling characters of which the first has two bytes
FileContents ==
    {[bytes |-> Ceiling, chars |-> Ceiling, boundary |-> TRUE, head |-> Ceiling],
     [bytes |-> Ceiling + 1, chars |-> Ceiling + 1, boundary |-> TRUE, head |-> Ceiling],
     [bytes |-> Ceiling + 1, chars |-> Ceiling, boundary |-> FALSE, head |-> Ceiling - 1],
     [bytes |-> Ceiling + 1, chars |-> Ceiling, boundary |-> TRUE, head |-> Ceiling - 1]}

NoContent == [bytes |-> 0, chars |-> 0, boundary |-> TRUE, head |-> 0]

\* what the file system holds at a path: nothing, a directory, a file that is
\* not valid UTF-8, or a readable file with some content
FsEntries ==
    {[kind |-> k, content |-> NoContent] : k \in {"missing", "dir", "binary"}}
        \cup {[kind |-> "file", content |-> c] : c \in FileContents}

\* CodebaseExplorer::read_file(file_path) for an explorer with base_dir
\* base, file_path being the string named name with the components rel, and
\* entry what the file system holds at the resolved path: [ok, content, error]
ReadFileAt(base, rel, name, entry) ==
    IF ~resolve_safe_path(base, rel).ok
    THEN [ok |-> FALSE, content |-> NoContent,
          error |-> Error("Access denied: Path is outside allowed directory", "")]
    ELSE IF entry.kind = "missing"
    THEN [ok |-> FALSE, content |-> NoContent, error |-> Error("File does not exist", name)]
    ELSE IF entry.kind = "dir"
    THEN [ok |-> FALSE, content |-> NoContent, error |-> Error("Path is not a file", name)]
    ELSE IF entry.kind = "binary"
    THEN [ok |-> FALSE, content |-> NoContent,
          error |-> Error("stream did not contain valid UTF-8", "")]
    ELSE [ok |-> TRUE, content |-> entry.content, error |-> NoError]

\* read_file(p) for the explorer in use
read_file(p, entry) == ReadFileAt(root, Components(p), p, entry)

-----------------------------------------------------------------------------
(* File Reading step (strategies/steps/read_files.rs) *)

\* lines 39-43: the content as stored, [src, kept, marker]: the first kept
\* bytes of src, followed by "... (truncated)" when marker
Truncated(content) ==
    IF content.bytes > Ceiling
    THEN [src |-> content, kept |-> Ceiling, marker |-> TRUE]
    ELSE [src |-> content, kept |-> content.bytes, marker |-> FALSE]

\* &content[..50000] panics when byte 50000 is inside a character
TruncationPanics(content) == content.bytes > Ceiling /\ ~content.boundary

\* lines 36-56: the record pushed for one path
FileRecord(p, entry) ==
    LET r == read_file(p, entry)
    IN  IF r.ok THEN [path |-> p, content |-> Truncated(r.content)]
        ELSE [path |-> p, error |-> r.error]

\* the records pushed from the last path to the first
ReadResultsReversed(files, fs) ==
    [k \in 1..Len(files) |->
        FileRecord(files[Len(files) + 1 - k], fs[files[Len(files) + 1 - k]])]

\* lines 33-57: one record pushed for each path of the list, in its order
ReadResults(files, fs) ==
    [k \in 1..Len(files) |-> FileRecord(files[k], fs[files[k]])]

\* the paths of the list whose read makes the truncation panic
PanickingReads(files, fs) ==
    {k \in 1..Len(files) :
        LET r == read_file(files[k], fs[files[k]])
        IN  r.ok /\ TruncationPanics(r.content)}

\* the step with the read error propagated by ? instead of recorded
ReadFilesExecuteAborting(step, ctx, fs) ==
    LET files == FromValueVecString(Get(ctx, step.source_key))
        results == [k \in 1..Len(files.files) |->
                        FileRecord(files.files[k], fs[files.files[k]])]
        failed == {k \in 1..Len(files.files) :
                      ~read_file(files.files[k], fs[files.files[k]]).ok}
    IN  IF ~Has(ctx, step.source_key)
        THEN Outcome("err", Error("Key not found", step.source_key), ctx, 0)
        ELSE IF ~files.ok
        THEN Outcome("err", Error("invalid type: expected a sequence of strings", ""),
                     ctx, 0)
        ELSE IF failed # {}
        THEN Outcome("err", read_file(files.files[Min(failed)],
                                      fs[files.files[Min(failed)]]).error, ctx, 0)
        ELSE IF PanickingReads(files.files, fs) # {}
        THEN Outcome("panic", Error("byte index is not a char boundary", ""), ctx, 0)
        ELSE Outcome("ok", NoError,
                     Set(ctx, step.output_key, ArrayOfRecords(results)), 0)

\* the step with an absent source key read as an empty list
ReadFilesExecuteLenient(step, ctx, fs) ==
    LET files == FromValueVecString(Get(ctx, step.source_key))
        results == [k \in 1..Len(files.files) |->
                        FileRecord(files.files[k], fs[files.files[k]])]
    IN  IF ~Has(ctx, step.source_key)
        THEN Outcome("ok", NoError, Set(ctx, step.output_key, ArrayOfRecords(<<>>)), 0)
        ELSE IF ~files.ok
        THEN Outcome("err", Error("invalid type: expected a sequence of strings", ""),
                     ctx, 0)
        ELSE IF PanickingReads(files.files, fs) # {}
        THEN Outcome("panic", Error("byte index is not a char boundary", ""), ctx, 0)
        ELSE Outcome("ok", NoError,
                     Set(ctx, step.output_key, ArrayOfRecords(results)), 0)

\* ReadFilesStep::execute.  fs: what the file system holds at each path
ReadFilesExecute(step, ctx, fs) ==
    LET files == FromValueVecString(Get(ctx, step.source_key))
        results == ReadResults(files.files, fs)
    IN  IF ~Has(ctx, step.source_key)
        THEN Outcome("err", Error("Key not found", step.source_key), ctx, 0)
        ELSE IF ~files.ok
        THEN Outcome("err", Error("invalid type: expected a sequence of strings", ""),
                     ctx, 0)
        ELSE IF PanickingReads(files.files, fs) # {}
        THEN Outcome("panic", Error("byte index is not a char boundary", ""), ctx, 0)
        ELSE Outcome("ok", NoError,
                     Set(ctx, step.output_key, ArrayOfRecords(results)), 0)

-----------------------------------------------------------------------------
(* Model Analysis step (strategies/steps/analyze.rs) *)

\* lines 66-69: the value stored for the model's response
AnalysisResult(response) ==
    LET json == extract_json(response)
    IN  IF json.ok THEN JsonValue(json.val) ELSE StringValue(response)

\* line 45: key.contains("contents") || key.contains("files"), over Keys
NamesFiles(key) ==
    key \in {"files", "contents", "tech_stack_files", "tech_stack_contents",
             "growth_files", "growth_contents", "revenue_files", "revenue_contents",
             "industry_files", "industry_contents", "overview_files",
             "overview_contents", "features_files", "features_contents"}

\* line 46: data.as_array() is Some
IsArray(v) == v.t = "array" \/ (v.t = "json" /\ v.s # <<>> /\ Head(v.s) = "[")

\* lines 48-52: the items with a string under "path" and under "content";
\* the members of the arrays parsed from text are never named so
RECURSIVE FileItems(_)
FileItems(recs) ==
    IF recs = <<>> THEN <<>>
    ELSE IF "content" \in DOMAIN Head(recs)
    THEN <<Head(recs)>> \o FileItems(Tail(recs))
    ELSE FileItems(Tail(recs))

\* lines 45-59: what one present source key adds to the prompt
PromptSection(key, v) ==
    IF NamesFiles(key)
    THEN IF IsArray(v)
         THEN [kind |-> "Files", key |-> key, value |-> NoValue,
               items |-> IF v.t = "array" THEN FileItems(v.r) ELSE <<>>]
         ELSE [kind |-> "Context", key |-> key, value |-> v, items |-> <<>>]
    ELSE [kind |-> "Analysis Result", key |-> key, value |-> v, items |-> <<>>]

\* an empty section appended for a source key the context does not hold
RECURSIVE FinalPromptPlaceholder(_, _)
FinalPromptPlaceholder(source_keys, ctx) ==
    IF source_keys = <<>> THEN <<>>
    ELSE <<IF Has(ctx, Head(source_keys))
           THEN PromptSection(Head(source_keys), Get(ctx, Head(source_keys)))
           ELSE [kind |-> "Analysis Result", key |-> Head(source_keys),
                 value |-> NoValue, items |-> <<>>]>>
            \o FinalPromptPlaceholder(Tail(source_keys), ctx)

\* lines 40-61: the sections appended to the prompt template, one for each
\* source key the context holds, in the order of source_keys
RECURSIVE FinalPrompt(_, _)
FinalPrompt(source_keys, ctx) ==
    IF source_keys = <<>> THEN <<>>
    ELSE (IF Has(ctx, Head(source_keys))
          THEN <<PromptSection(Head(source_keys), Get(ctx, Head(source_keys)))>>
          ELSE <<>>) \o FinalPrompt(Tail(source_keys), ctx)

\* the step asking the model again when the response holds no JSON
AnalyzeExecuteRetrying(step, ctx, llm) ==
    IF ~llm.ok
    THEN Outcome("err", Error("generation failed", ""), ctx, 1)
    ELSE Outcome("ok", NoError,
                 Set(ctx, step.output_key, AnalysisResult(llm.text)),
                 IF extract_json(llm.text).ok THEN 1 ELSE 2)

\* the step with the extraction error propagated by ? instead of replaced
\* by the raw text
AnalyzeExecuteStrict(step, ctx, llm) ==
    IF ~llm.ok
    THEN Outcome("err", Error("generation failed", ""), ctx, 1)
    ELSE IF ~extract_json(llm.text).ok
    THEN Outcome("err", Error("No JSON found", ""), ctx, 1)
    ELSE Outcome("ok", NoError,
                 Set(ctx, step.output_key, AnalysisResult(llm.text)), 1)

\* AnalyzeStep::execute.  llm: what generate_content returns for the prompt
\* FinalPrompt(step.source_keys, ctx); serializing a Value cannot fail, so
\* the call at line 63 is always reached, once
AnalyzeExecute(step, ctx, llm) ==
    IF ~llm.ok
    THEN Outcome("err", Error("generation failed", ""), ctx, 1)
    ELSE Outcome("ok", NoError,
                 Set(ctx, step.output_key, AnalysisResult(llm.text)), 1)

-----------------------------------------------------------------------------
(* Step descriptors and the pipelines that are run *)

\* SelectFilesStep::new
SelectFilesStep(patterns, max_files, output_key) ==
    [kind |-> "select", patterns |-> patterns, max_files |-> max_files,
     source_key |-> "", source_keys |-> <<>>, output_key |-> output_key]

\* ReadFilesStep::new
ReadFilesStep(source_key, output_key) ==
    [kind |-> "read", patterns |-> <<>>, max_files |-> 0,
     source_key |-> source_key, source_keys |-> <<>>, output_key |-> output_key]

\* AnalyzeStep::new_with_keys
AnalyzeStep(output_key, source_keys) ==
    [kind |-> "analyze", patterns |-> <<>>, max_files |-> 0,
     source_key |-> "", source_keys |-> source_keys, output_key |-> output_key]

\* AnalysisStep::name
StepName(step) ==
    CASE step.kind = "select" -> "Select Files"
      [] step.kind = "read" -> "Read Files"
      [] OTHER -> "Analyze"

\* the shape of the shipped file analyzers (analyzers/tech_stack.rs), with
\* every budget up to MaxBudget
FileAnalyzer(max_files) ==
    <<SelectFilesStep(<<"p1", "p2">>, max_files, "files"),
      ReadFilesStep("files", "contents"),
      AnalyzeStep("result", <<"contents">>)>>

\* a manifest analyzer writing its result under another key
ManifestAnalyzerMiskeyed ==
    <<AnalyzeStep("result", <<"tech_stack", "current_growth_features",
                              "revenue_leakage", "industry">>)>>

\* the shape of the shipped manifest analyzer (analyzers/manifest.rs)
ManifestAnalyzer ==
    <<AnalyzeStep("manifest", <<"tech_stack", "current_growth_features",
                                "revenue_leakage", "industry">>)>>

\* a File Reading step on its own: its source key comes from the seed, if at all
ReaderOnly == <<ReadFilesStep("files", "contents")>>

\* a Model Analysis step whose output a File Reading step reads
AnalyzeThenRead == <<AnalyzeStep("files", <<>>), ReadFilesStep("files", "contents")>>

Pipelines ==
    {FileAnalyzer(b) : b \in 0..MaxBudget}
        \cup {ManifestAnalyzer, ReaderOnly, AnalyzeThenRead, <<>>}

\* initial_context: None, or Some(context) left by an earlier run
NoSeed == [some |-> FALSE, ctx |-> NewContext("")]

SeedWith(data) ==
    [some |-> TRUE,
     ctx |-> [request |-> "earlier request", data |-> data,
              metadata |-> [model_name |-> "earlier model", provider_name |-> "earlier",
                            total_steps |-> 3, files_read |-> <<"a.py">>,
                            tokens_used |-> 1]]]

Seeds ==
    {NoSeed,
     SeedWith([k \in {"files"} |-> ArrayOfStrings(<<"b.py", OutsidePath, "a.py", "b.py">>)]),
     SeedWith([k \in {"files", "tech_stack", "industry"} |->
                  CASE k = "files" -> StringValue(<<"x">>)
                    [] k = "tech_stack" -> JsonValue(<<"{", "}">>)
                    [] OTHER -> StringValue(<<"x">>)])}

\* the texts the text-generation capability answers with in a pipeline run
Responses ==
    {<<>>,
     <<"x">>,
     <<"[", "'a.py'", "]">>,
     <<"x", "[", "'c.py'", ",", "'a.py'", "]", Ws>>,
     <<"[", "'a.py'", ",", "'b.py'", ",", "'c.py'", ",", "'a.py'", "]">>,
     <<"[", "'../d'", ",", "'a.py'", "]">>,
     <<"[", "0", "]">>,
     <<"]", "[">>,
     <<"]", Ws, "[">>,
     <<"{", "}", "x">>,
     <<"x", "{", "'a.py'", ":", "0", "}">>,
     <<Fence, "json", "[", "0", "]", Fence>>,
     <<Fence, "json", "x", Fence, "[", "]">>}

LlmAnswers == {LlmFailed} \cup {LlmOk(r) : r \in Responses}

-----------------------------------------------------------------------------
(* Pipeline Executor (strategies/mod.rs, MultiStepStrategy::run_with_context) *)

\* LLMClient::get_model_name, get_provider_name
ModelName == "model"

ProviderName == "provider"

NoResult == [status |-> "none", error |-> NoError]

\* no on_progress closure that prints: the caller's closure is only recorded
\* in progressLog
NoCallback == [some |-> FALSE, phase |-> "", p |-> 0]

\* EngineOutput::Progress (main.rs:61-70); progress in hundredths
ProgressOutput(phase, message, p) ==
    [type |-> "progress", phase |-> phase, message |-> message, progress |-> p,
     error |-> NoError, manifest_path |-> "", docs_path |-> ""]

\* EngineOutput::Result (main.rs:126-131); "" stands for None
ResultOutput(manifest_path, docs_path) ==
    [type |-> "result", phase |-> "", message |-> "", progress |-> 0,
     error |-> NoError, manifest_path |-> manifest_path, docs_path |-> docs_path]

\* EngineOutput::Error (main.rs:25-28)
ErrorOutput(error) ==
    [type |-> "error", phase |-> "", message |-> "", progress |-> 0,
     error |-> error, manifest_path |-> "", docs_path |-> ""]

\* the closure given as on_progress is called with a message; the closures
\* of run_analyze print a Progress line (main.rs:74)
Notified(message) ==
    IF callback.some
    THEN Append(outputs, ProgressOutput(callback.phase, message, callback.p))
    ELSE outputs

NoManifest == [some |-> FALSE, value |-> NoValue]

NoPath == [slashes |-> 0, comps |-> <<>>]

NoAccess == [ok |-> FALSE, content |-> NoContent, error |-> NoError,
             entry |-> [kind |-> "missing", content |-> NoContent]]

\* the explorer of the pipeline runs; no read_file call made on its own
NoPathCall ==
    /\ root = base_dir
    /\ relative_path = NoPath
    /\ access = NoAccess

\* the state of run_analyze when the executor is run on its own
NoAnalyzeRun ==
    /\ apc = "none"
    /\ product_docs = FALSE
    /\ callback = NoCallback
    /\ outputs = <<>>
    /\ started = <<>>
    /\ run_results = [k \in {} |-> NewContext("")]
    /\ manifest_context = NewContext("")
    /\ manifest_json = NoManifest
    /\ filesWritten = <<>>
    /\ exit = "running"

NoStep == [kind |-> "none", patterns |-> <<>>, max_files |-> 0,
           source_key |-> "", source_keys |-> <<>>, output_key |-> ""]

NoSearch == [p \in Patterns |-> [ok |-> TRUE, matches |-> {}]]

NoFs == [p \in {} |-> [kind |-> "missing", content |-> NoContent]]

\* the observation before any step has run
NoLast ==
    [kind |-> "none", idx |-> 0, step |-> NoStep, status |-> "none", error |-> NoError,
     before |-> NewContext(""), calls |-> 0, search |-> NoSearch, llm |-> LlmFailed,
     fs |-> NoFs, prompt |-> <<>>]

Init ==
    /\ steps \in Pipelines
    /\ seed \in Seeds
    /\ pc = "start"
    /\ i = 0
    /\ context = NewContext("")
    /\ result = NoResult
    /\ progressLog = <<>>
    /\ invoked = <<>>
    /\ executing = {}
    /\ completed = <<>>
    /\ written = <<>>
    /\ llmCalls = 0
    /\ last = NoLast
    /\ text = <<>>
    /\ extracted = [ok |-> FALSE, val |-> <<>>]
    /\ parsed = [status |-> "none", files |-> <<>>, max_files |-> 0]
    /\ hpc = "idle"
    /\ NoPathCall
    /\ NoAnalyzeRun

\* the request the run is called with (main.rs:74-119 in an analyze run)
Request ==
    CASE apc = "tech_stack" -> "Detect tech stack"
      [] apc = "growth_features" -> "Detect growth features"
      [] apc = "revenue_leakage" -> "Detect revenue leakage"
      [] apc = "industry" -> "Detect industry"
      [] apc = "product_overview" -> "Product Overview"
      [] apc = "features" -> "Features"
      [] apc = "docs_manifest" -> "Generate Docs Manifest"
      [] apc = "manifest" -> "Generate Manifest"
      [] OTHER -> "request"

\* what the environment can answer a step with.  A pipeline run on its own
\* is given every answer; within an analyze run, which chains up to seven
\* pipelines, each step is given a few: a search under budget, one over
\* budget and a failing one; a failing generation, a JSON response and the
\* response "] [", which is no JSON; readable files
RunSearches ==
    {[p \in Patterns |-> [ok |-> TRUE, matches |-> IF p = "p1" THEN {"a.py"} ELSE {}]],
     [p \in Patterns |-> [ok |-> TRUE, matches |-> IF p = "p1" THEN Paths ELSE {}]],
     [p \in Patterns |-> [ok |-> (p # "p1"), matches |-> {}]]}

RunAnswers == {LlmFailed, LlmOk(<<"{", "}">>), LlmOk(<<"]", Ws, "[">>)}

Searches == IF apc = "none" THEN [Patterns -> SearchResults] ELSE RunSearches

Answers == IF apc = "none" THEN LlmAnswers ELSE RunAnswers

FsChoices(paths) ==
    IF apc = "none" THEN [paths -> FsEntries]
    ELSE {[p \in paths |-> [kind |-> "file", content |-> NoContent]]}

\* the seed taken with the metadata it came with
InitialContextStale(request) ==
    IF seed.some THEN seed.ctx
    ELSE [NewContext(request) EXCEPT !.metadata.model_name = ModelName,
                                     !.metadata.provider_name = ProviderName,
                                     !.metadata.total_steps = Len(steps)]

\* the run starting from a new context whatever initial_context holds
InitialContextFresh(request) ==
    [NewContext(request) EXCEPT !.metadata.model_name = ModelName,
                                !.metadata.provider_name = ProviderName,
                                !.metadata.total_steps = Len(steps)]

\* lines 43-46: the context is the seed or a new one; the metadata is set
InitialContext(request) ==
    LET c == IF seed.some THEN seed.ctx ELSE NewContext(request)
    IN  [c EXCEPT !.metadata.model_name = ModelName,
                  !.metadata.provider_name = ProviderName,
                  !.metadata.total_steps = Len(steps)]

Start ==
    /\ pc = "start"
    /\ context' = InitialContext(Request)
    /\ pc' = "loop"
    /\ UNCHANGED <<steps, seed, i, result, progressLog, invoked, executing, completed,
                   written, llmCalls, last>>
    /\ UNCHANGED harnessVars
    /\ UNCHANGED analyzeVars

\* line 52: format!("Executing {}", step.name())
Executing(name) ==
    CASE name = "Select Files" -> "Executing Select Files"
      [] name = "Read Files" -> "Executing Read Files"
      [] OTHER -> "Executing Analyze"

\* the percentage counting the step about to run as done
ProgressAfter(k, total) == [num |-> (k + 1) * 100, den |-> total]

\* line 51: (i / total) * 100.0, kept as the fraction num / den
Progress(k, total) == [num |-> k * 100, den |-> total]

\* lines 48-55, up to the call: the progress notification, then step.execute
\* is called
Dispatch ==
    /\ pc = "loop"
    /\ i < Len(steps)
    /\ progressLog' = Append(progressLog,
           [label |-> Executing(StepName(steps[i + 1])),
            percent |-> Progress(i, Len(steps)),
            step_num |-> i + 1, total |-> Len(steps)])
    /\ invoked' = Append(invoked, i + 1)
    /\ executing' = executing \cup {i + 1}
    /\ outputs' = Notified(Executing(StepName(steps[i + 1])))
    /\ pc' = "exec"
    /\ UNCHANGED <<steps, seed, i, context, result, completed, written, llmCalls, last>>
    /\ UNCHANGED harnessVars
    /\ UNCHANGED runVars

\* the loop going on whatever the step returned
AfterStepIgnoring(outcome) == "loop"

\* line 55, the ? operator: where run_with_context goes on after the step
\* returned
AfterStep(outcome) == IF outcome.status = "ok" THEN "loop" ELSE "done"

\* the loop index left where it was
NextIndexStuck(k) == k

\* line 48: the loop index after a step that returned Ok
NextIndex(k) == k + 1

\* line 55: step.execute returns (or panics) with outcome; obs is what the
\* step was given
Return(outcome, obs) ==
    /\ executing' = executing \ {i + 1}
    /\ llmCalls' = llmCalls + outcome.calls
    /\ context' = outcome.ctx
    /\ last' = [obs EXCEPT !.kind = steps[i + 1].kind, !.idx = i + 1,
                           !.step = steps[i + 1], !.status = outcome.status,
                           !.error = outcome.error, !.before = context,
                           !.calls = outcome.calls]
    /\ pc' = AfterStep(outcome)
    /\ IF outcome.status = "ok"
       THEN /\ i' = NextIndex(i)
            /\ completed' = Append(completed, i + 1)
            /\ written' = Append(written,
                   [key |-> steps[i + 1].output_key,
                    value |-> outcome.ctx.data[steps[i + 1].output_key]])
            /\ result' = result
       ELSE /\ i' = i
            /\ completed' = completed
            /\ written' = written
            /\ result' = [status |-> outcome.status, error |-> outcome.error]
    /\ UNCHANGED <<steps, seed, progressLog, invoked>>
    /\ UNCHANGED harnessVars
    /\ UNCHANGED analyzeVars

ExecSelect ==
    /\ pc = "exec"
    /\ steps[i + 1].kind = "select"
    /\ \E search \in Searches, llm \in Answers :
          \E order \in Orderings(Candidates(steps[i + 1], search)) :
             Return(SelectFilesExecute(steps[i + 1], context, search, order, llm),
                    [NoLast EXCEPT !.search = search, !.llm = llm])

\* the paths a File Reading step will read
PathsToRead(step, ctx) ==
    IF Has(ctx, step.source_key) /\ FromValueVecString(Get(ctx, step.source_key)).ok
    THEN {Get(ctx, step.source_key).s[k] : k \in 1..Len(Get(ctx, step.source_key).s)}
    ELSE {}

ExecRead ==
    /\ pc = "exec"
    /\ steps[i + 1].kind = "read"
    /\ \E fs \in FsChoices(PathsToRead(steps[i + 1], context)) :
          Return(ReadFilesExecute(steps[i + 1], context, fs), [NoLast EXCEPT !.fs = fs])

ExecAnalyze ==
    /\ pc = "exec"
    /\ steps[i + 1].kind = "analyze"
    /\ \E llm \in Answers :
          Return(AnalyzeExecute(steps[i + 1], context, llm),
                 [NoLast EXCEPT !.llm = llm,
                                !.prompt = FinalPrompt(steps[i + 1].source_keys, context)])

\* the run returning Ok without the final notification
FinishSilent ==
    /\ pc = "loop"
    /\ i >= Len(steps)
    /\ result' = [status |-> "ok", error |-> NoError]
    /\ pc' = "done"
    /\ UNCHANGED <<steps, seed, i, context, invoked, executing, completed, written,
                   llmCalls, last, progressLog, outputs>>
    /\ UNCHANGED harnessVars
    /\ UNCHANGED runVars

\* lines 58-60: the final notification and Ok(context)
Finish ==
    /\ pc = "loop"
    /\ i >= Len(steps)
    /\ progressLog' = Append(progressLog,
           [label |-> "Complete", percent |-> [num |-> 100, den |-> 1],
            step_num |-> Len(steps), total |-> Len(steps)])
    /\ outputs' = Notified("Complete")
    /\ result' = [status |-> "ok", error |-> NoError]
    /\ pc' = "done"
    /\ UNCHANGED <<steps, seed, i, context, invoked, executing, completed, written,
                   llmCalls, last>>
    /\ UNCHANGED harnessVars
    /\ UNCHANGED runVars

Next == Start \/ Dispatch \/ ExecSelect \/ ExecRead \/ ExecAnalyze \/ Finish

Spec == Init /\ [][Next]_vars

\* the executor with its scheduling: run_with_context is one sequential
\* async function, so it goes on whenever it can, and every file-access and
\* generation call a step awaits is assumed to return
SpecLive == Spec /\ WF_vars(Next)

-----------------------------------------------------------------------------
(* The analyze command (main.rs, main and run_analyze): the four analysis   *)
(* pipelines, then the product-docs pipelines if asked for, then the        *)
(* manifest pipeline seeded with the earlier results, then the files.       *)
(* The file budgets of the shipped pipelines (10 to 30) are scaled to       *)
(* MaxBudget and their pattern lists to the two patterns of the model.      *)

\* a file analyzer whose File Reading step reads the key it writes
ShippedFileAnalyzerMiswired(files_key, contents_key, output_key) ==
    <<SelectFilesStep(<<"p1", "p2">>, MaxBudget, files_key),
      ReadFilesStep(contents_key, contents_key),
      AnalyzeStep(output_key, <<contents_key>>)>>

\* a pipeline of the shape select, read, analyze (analyzers/tech_stack.rs,
\* growth_features.rs, revenue_leakage.rs, industry.rs, docs.rs)
ShippedFileAnalyzer(files_key, contents_key, output_key) ==
    <<SelectFilesStep(<<"p1", "p2">>, MaxBudget, files_key),
      ReadFilesStep(files_key, contents_key),
      AnalyzeStep(output_key, <<contents_key>>)>>

\* create_docs_manifest_analyzer
DocsManifestAnalyzer ==
    <<AnalyzeStep("docs_manifest", <<"tech_stack", "product_overview", "industry",
                                     "features", "current_growth_features">>)>>

\* the pipeline each stage of run_analyze creates
StageSteps(stage) ==
    CASE stage = "tech_stack" ->
            ShippedFileAnalyzer("tech_stack_files", "tech_stack_contents", "tech_stack")
      [] stage = "growth_features" ->
            ShippedFileAnalyzer("growth_files", "growth_contents",
                                "current_growth_features")
      [] stage = "revenue_leakage" ->
            ShippedFileAnalyzer("revenue_files", "revenue_contents", "revenue_leakage")
      [] stage = "industry" ->
            ShippedFileAnalyzer("industry_files", "industry_contents", "industry")
      [] stage = "product_overview" ->
            ShippedFileAnalyzer("overview_files", "overview_contents", "product_overview")
      [] stage = "features" ->
            ShippedFileAnalyzer("features_files", "features_contents", "features")
      [] stage = "docs_manifest" -> DocsManifestAnalyzer
      [] OTHER -> ManifestAnalyzer

Stages == {"tech_stack", "growth_features", "revenue_leakage", "industry",
           "product_overview", "features", "docs_manifest", "manifest"}

\* the stages that run a pipeline from the prepared manifest context
SeededStages == {"docs_manifest", "manifest"}

\* the Progress line printed before the stage's pipeline is run
\* (lines 73, 76, 79, 82, 97, 100, 106, 118)
Announcement(stage) ==
    CASE stage = "tech_stack" -> ProgressOutput("tech_stack", "Analyzing tech stack...", 10)
      [] stage = "growth_features" ->
            ProgressOutput("growth_features", "Analyzing growth features...", 30)
      [] stage = "revenue_leakage" ->
            ProgressOutput("revenue_leakage", "Analyzing revenue leakage...", 50)
      [] stage = "industry" -> ProgressOutput("industry", "Analyzing industry...", 70)
      [] stage = "product_overview" ->
            ProgressOutput("product_overview", "Analyzing product overview...", 85)
      [] stage = "features" -> ProgressOutput("features", "Documenting features...", 90)
      [] stage = "docs_manifest" ->
            ProgressOutput("manifest", "Generating docs manifest...", 95)
      [] OTHER -> ProgressOutput("manifest", "Generating manifest...", 95)

\* every pipeline reporting its own start as its progress
StageCallbackFlat(stage) ==
    IF stage \in {"product_overview", "features"}
    THEN NoCallback
    ELSE [some |-> TRUE, phase |-> stage, p |-> 0]

\* the on_progress closure the stage's pipeline is given
\* (lines 74, 77, 80, 83, 98, 101, 107, 119)
StageCallback(stage) ==
    CASE stage = "tech_stack" -> [some |-> TRUE, phase |-> "tech_stack", p |-> 20]
      [] stage = "growth_features" -> [some |-> TRUE, phase |-> "growth_features", p |-> 40]
      [] stage = "revenue_leakage" -> [some |-> TRUE, phase |-> "revenue_leakage", p |-> 60]
      [] stage = "industry" -> [some |-> TRUE, phase |-> "industry", p |-> 80]
      [] stage \in {"product_overview", "features"} -> NoCallback
      [] OTHER -> [some |-> TRUE, phase |-> "manifest", p |-> 95]

\* where run_analyze goes on after the stage's pipeline returned Ok
AfterStage(stage) ==
    CASE stage = "tech_stack" -> "growth_features"
      [] stage = "growth_features" -> "revenue_leakage"
      [] stage = "revenue_leakage" -> "industry"
      [] stage = "industry" -> "prepare"
      [] stage = "product_overview" -> "features"
      [] stage = "features" -> "copy_docs"
      [] stage = "docs_manifest" -> "write_docs"
      [] OTHER -> "take_manifest"

InitAnalyze ==
    /\ steps = <<>>
    /\ seed = NoSeed
    /\ pc = "idle"
    /\ i = 0
    /\ context = NewContext("")
    /\ result = NoResult
    /\ progressLog = <<>>
    /\ invoked = <<>>
    /\ executing = {}
    /\ completed = <<>>
    /\ written = <<>>
    /\ llmCalls = 0
    /\ last = NoLast
    /\ text = <<>>
    /\ extracted = [ok |-> FALSE, val |-> <<>>]
    /\ parsed = [status |-> "none", files |-> <<>>, max_files |-> 0]
    /\ hpc = "idle"
    /\ NoPathCall
    /\ apc = "connect"
    /\ product_docs \in BOOLEAN
    /\ callback = NoCallback
    /\ outputs = <<>>
    /\ started = <<>>
    /\ run_results = [k \in {} |-> NewContext("")]
    /\ manifest_context = NewContext("")
    /\ manifest_json = NoManifest
    /\ filesWritten = <<>>
    /\ exit = "running"

\* main, lines 24-31: run returned Err(error): the Error line, exit(1)
Fail(error) ==
    /\ outputs' = Append(outputs, ErrorOutput(error))
    /\ exit' = "error"
    /\ apc' = "done"

\* lines 54-59: the explorer and the client are created; an unknown provider
\* is an Err
Connect ==
    /\ apc = "connect"
    /\ \E ok \in BOOLEAN :
          IF ok
          THEN /\ apc' = "tech_stack"
               /\ UNCHANGED <<outputs, exit>>
          ELSE Fail(Error("Unknown provider", ""))
    /\ UNCHANGED <<product_docs, callback, started, run_results, manifest_context,
                   manifest_json, filesWritten>>
    /\ UNCHANGED pipelineVars
    /\ UNCHANGED harnessVars

\* the stage's Progress line, then its pipeline is created and run or
\* run_with_context is called (lines 73-74, ..., 118-119)
Announce ==
    /\ apc \in Stages
    /\ pc = "idle"
    /\ outputs' = Append(outputs, Announcement(apc))
    /\ started' = Append(started, apc)
    /\ callback' = StageCallback(apc)
    /\ steps' = StageSteps(apc)
    /\ seed' = IF apc \in SeededStages
               THEN [some |-> TRUE, ctx |-> manifest_context] ELSE NoSeed
    /\ pc' = "start"
    /\ i' = 0
    /\ context' = NewContext("")
    /\ result' = NoResult
    /\ progressLog' = <<>>
    /\ invoked' = <<>>
    /\ executing' = {}
    /\ completed' = <<>>
    /\ written' = <<>>
    /\ llmCalls' = 0
    /\ last' = NoLast
    /\ UNCHANGED <<apc, product_docs, run_results, manifest_context, manifest_json,
                   filesWritten, exit>>
    /\ UNCHANGED harnessVars

\* the pipeline returned Ok(context): the result is bound (ts_result, ...)
StageReturns ==
    /\ apc \in Stages
    /\ pc = "done"
    /\ result.status = "ok"
    /\ run_results' = [k \in (DOMAIN run_results) \cup {apc} |->
                          IF k = apc THEN context ELSE run_results[k]]
    /\ apc' = AfterStage(apc)
    /\ pc' = "idle"
    /\ UNCHANGED <<steps, seed, i, context, result, progressLog, invoked, executing,
                   completed, written, llmCalls, last>>
    /\ UNCHANGED <<product_docs, callback, outputs, started, manifest_context,
                   manifest_json, filesWritten, exit>>
    /\ UNCHANGED harnessVars

\* the pipeline returned Err: the ? of run_analyze and of run hand it to main
StageFails ==
    /\ apc \in Stages
    /\ pc = "done"
    /\ result.status = "err"
    /\ Fail(result.error)
    /\ UNCHANGED <<product_docs, callback, started, run_results, manifest_context,
                   manifest_json, filesWritten>>
    /\ UNCHANGED pipelineVars
    /\ UNCHANGED harnessVars

\* a step panicked: the panic unwinds through run_analyze and main, which
\* print nothing; the process ends with the panic
StagePanics ==
    /\ apc \in Stages
    /\ pc = "done"
    /\ result.status = "panic"
    /\ exit' = "panic"
    /\ apc' = "done"
    /\ UNCHANGED <<product_docs, callback, outputs, started, run_results,
                   manifest_context, manifest_json, filesWritten>>
    /\ UNCHANGED pipelineVars
    /\ UNCHANGED harnessVars

\* the entries of ctx copied under the same keys into into, for the keys
\* ctx holds
RECURSIVE CopyKeys(_, _)
CopyKeys(into, pairs) ==
    IF pairs = <<>> THEN into
    ELSE LET from == Head(pairs).ctx
             key == Head(pairs).key
         IN  CopyKeys(IF Has(from, key) THEN Set(into, key, Get(from, key)) ELSE into,
                      Tail(pairs))

\* a new context handed over with nothing copied into it
PreparedContextEmpty == NewContext("Generate Manifest")

\* lines 86-90: the context for the manifest pipeline
PreparedContext ==
    CopyKeys(NewContext("Generate Manifest"),
             <<[ctx |-> run_results["tech_stack"], key |-> "tech_stack"],
               [ctx |-> run_results["growth_features"], key |-> "current_growth_features"],
               [ctx |-> run_results["revenue_leakage"], key |-> "revenue_leakage"],
               [ctx |-> run_results["industry"], key |-> "industry"]>>)

\* lines 86-95
PrepareManifest ==
    /\ apc = "prepare"
    /\ manifest_context' = PreparedContext
    /\ apc' = IF product_docs THEN "product_overview" ELSE "manifest"
    /\ UNCHANGED <<product_docs, callback, outputs, started, run_results,
                   manifest_json, filesWritten, exit>>
    /\ UNCHANGED pipelineVars
    /\ UNCHANGED harnessVars

\* lines 103-104
CopyDocs ==
    /\ apc = "copy_docs"
    /\ manifest_context' =
          CopyKeys(manifest_context,
                   <<[ctx |-> run_results["product_overview"], key |-> "product_overview"],
                     [ctx |-> run_results["features"], key |-> "features"]>>)
    /\ apc' = "docs_manifest"
    /\ UNCHANGED <<product_docs, callback, outputs, started, run_results,
                   manifest_json, filesWritten, exit>>
    /\ UNCHANGED pipelineVars
    /\ UNCHANGED harnessVars

\* lines 109-116: the docs manifest, if any, is written as product-docs.md;
\* the write can fail
WriteDocs ==
    /\ apc = "write_docs"
    /\ IF Has(run_results["docs_manifest"], "docs_manifest")
       THEN \E ok \in BOOLEAN :
               IF ok
               THEN /\ filesWritten' = Append(filesWritten, "product-docs.md")
                    /\ manifest_json' =
                          [some |-> TRUE,
                           value |-> Get(run_results["docs_manifest"], "docs_manifest")]
                    /\ apc' = "write"
                    /\ UNCHANGED <<outputs, exit>>
               ELSE /\ Fail(Error("write failed", "product-docs.md"))
                    /\ UNCHANGED <<filesWritten, manifest_json>>
       ELSE /\ manifest_json' = NoManifest
            /\ apc' = "write"
            /\ UNCHANGED <<outputs, exit, filesWritten>>
    /\ UNCHANGED <<product_docs, callback, started, run_results, manifest_context>>
    /\ UNCHANGED pipelineVars
    /\ UNCHANGED harnessVars

\* line 120: man_res.get("manifest").cloned()
TakeManifest ==
    /\ apc = "take_manifest"
    /\ manifest_json' =
          IF Has(run_results["manifest"], "manifest")
          THEN [some |-> TRUE, value |-> Get(run_results["manifest"], "manifest")]
          ELSE NoManifest
    /\ apc' = "write"
    /\ UNCHANGED <<product_docs, callback, outputs, started, run_results,
                   manifest_context, filesWritten, exit>>
    /\ UNCHANGED pipelineVars
    /\ UNCHANGED harnessVars

\* lines 123-137: the manifest is written and the Result line printed; the
\* write can fail; without a manifest the run fails
WriteManifest ==
    /\ apc = "write"
    /\ IF manifest_json.some
       THEN \E ok \in BOOLEAN :
               IF ok
               THEN /\ filesWritten' = Append(filesWritten, "growth-manifest.json")
                    /\ outputs' = Append(outputs,
                          ResultOutput("growth-manifest.json",
                                       IF product_docs THEN "product-docs.md" ELSE ""))
                    /\ exit' = "ok"
                    /\ apc' = "done"
               ELSE /\ Fail(Error("write failed", "growth-manifest.json"))
                    /\ UNCHANGED filesWritten
       ELSE /\ Fail(Error("Failed to generate manifest", ""))
            /\ UNCHANGED filesWritten
    /\ UNCHANGED <<product_docs, callback, started, run_results, manifest_context,
                   manifest_json>>
    /\ UNCHANGED pipelineVars
    /\ UNCHANGED harnessVars

NextAnalyze ==
    \/ Connect \/ Announce
    \/ Start \/ Dispatch \/ ExecSelect \/ ExecRead \/ ExecAnalyze \/ Finish
    \/ StageReturns \/ StageFails \/ StagePanics
    \/ PrepareManifest \/ CopyDocs \/ WriteDocs \/ TakeManifest \/ WriteManifest

SpecAnalyze == InitAnalyze /\ [][NextAnalyze]_vars

-----------------------------------------------------------------------------
(* The text functions on their own: extract_json and the response parsing   *)
(* of the File Selection step applied to every text of at most MaxLen       *)
(* tokens.                                                                  *)

\* the sorted candidate list the response parsing falls back on
HarnessCandidates == <<"a.py", "b.py", "c.py">>

InitExtract ==
    /\ steps = <<>>
    /\ seed = NoSeed
    /\ pc = "idle"
    /\ i = 0
    /\ context = NewContext("")
    /\ result = NoResult
    /\ progressLog = <<>>
    /\ invoked = <<>>
    /\ executing = {}
    /\ completed = <<>>
    /\ written = <<>>
    /\ llmCalls = 0
    /\ last = NoLast
    /\ text \in Texts(MaxLen)
    /\ extracted = [ok |-> FALSE, val |-> <<>>]
    /\ parsed = [status |-> "none", files |-> <<>>, max_files |-> 0]
    /\ hpc = "input"
    /\ NoPathCall
    /\ NoAnalyzeRun

\* extract_json(text)
ApplyExtract ==
    /\ hpc = "input"
    /\ extracted' = extract_json(text)
    /\ hpc' = "extracted"
    /\ UNCHANGED <<text, parsed>>
    /\ UNCHANGED pathVars
    /\ UNCHANGED pipelineVars
    /\ UNCHANGED analyzeVars

\* lines 59-67 of select_files.rs on the response text, for every budget
ApplyParseSelection ==
    /\ hpc = "input"
    /\ \E max_files \in 0..MaxBudget :
          parsed' = [status |-> ParseSelection(text, HarnessCandidates, max_files).status,
                     files |-> ParseSelection(text, HarnessCandidates, max_files).files,
                     max_files |-> max_files]
    /\ hpc' = "parsed"
    /\ UNCHANGED <<text, extracted>>
    /\ UNCHANGED pathVars
    /\ UNCHANGED pipelineVars
    /\ UNCHANGED analyzeVars

NextExtract == ApplyExtract \/ ApplyParseSelection

SpecExtract == InitExtract /\ [][NextExtract]_vars

-----------------------------------------------------------------------------
(* read_file on its own (codebase/mod.rs): every path string of at most     *)
(* MaxPathLen components with up to two leading '/' characters, read by     *)
(* explorers created for every directory of BaseDirs.                       *)

\* the component names of the path strings
PathNames == {"..", ".", "a", "proj"}

LeadingSlashes == 0..2

PathComps(n) == UNION {[1..m -> PathNames] : m \in 0..n}

PathInputs == [slashes : LeadingSlashes, comps : PathComps(MaxPathLen)]

InitPath ==
    /\ steps = <<>>
    /\ seed = NoSeed
    /\ pc = "idle"
    /\ i = 0
    /\ context = NewContext("")
    /\ result = NoResult
    /\ progressLog = <<>>
    /\ invoked = <<>>
    /\ executing = {}
    /\ completed = <<>>
    /\ written = <<>>
    /\ llmCalls = 0
    /\ last = NoLast
    /\ text = <<>>
    /\ extracted = [ok |-> FALSE, val |-> <<>>]
    /\ parsed = [status |-> "none", files |-> <<>>, max_files |-> 0]
    /\ hpc = "path"
    /\ root \in BaseDirs
    /\ relative_path \in PathInputs
    /\ access = NoAccess
    /\ NoAnalyzeRun

\* read_file(relative_path), whatever the file system holds there
ApplyReadFile ==
    /\ hpc = "path"
    /\ \E entry \in FsEntries :
          access' = [ok |-> ReadFileAt(root, relative_path, "path", entry).ok,
                     content |-> ReadFileAt(root, relative_path, "path", entry).content,
                     error |-> ReadFileAt(root, relative_path, "path", entry).error,
                     entry |-> entry]
    /\ hpc' = "read"
    /\ UNCHANGED <<text, extracted, parsed, root, relative_path>>
    /\ UNCHANGED pipelineVars
    /\ UNCHANGED analyzeVars

NextPath == ApplyReadFile

SpecPath == InitPath /\ [][NextPath]_vars

-----------------------------------------------------------------------------
(* Properties *)

\* the File Selection step of the last observation searched every pattern
\* successfully
SearchesOk == \A p \in Patterns : last.search[p].ok

\* the union of the matches of all patterns of the last File Selection step
MatchedUnion == UNION {last.search[p].matches : p \in Patterns}

\* list is the set S without repetition, in ascending lexicographic order
IsSortedListOf(list, S) ==
    /\ Len(list) = Cardinality(S)
    /\ {list[k] : k \in 1..Len(list)} = S
    /\ \A a, b \in 1..Len(list) : a < b => Rank(list[a]) < Rank(list[b])

\* the value under the output key of the step last executed
Output == context.data[last.step.output_key]

\* C1: a File Selection step whose patterns match at most max_files distinct
\* paths completes, writes exactly the sorted, duplicate-free union of the
\* matches under its output key and makes no generate_content call.
C1_UnderBudgetSelection ==
    (/\ last.kind = "select"
     /\ SearchesOk
     /\ Cardinality(MatchedUnion) <= last.step.max_files)
    => /\ last.status = "ok"
       /\ Output.t = "array"
       /\ Output.r = <<>>
       /\ IsSortedListOf(Output.s, MatchedUnion)
       /\ last.calls = 0

\* C1 witness: two patterns with an overlapping match, two distinct paths,
\* within budget, written after the step
C1_Witness ==
    /\ last.kind = "select"
    /\ last.status = "ok"
    /\ last.search["p1"] = [ok |-> TRUE, matches |-> {"b.py", "a.py"}]
    /\ last.search["p2"] = [ok |-> TRUE, matches |-> {"a.py"}]
    /\ last.step.max_files = 2
    /\ Output = ArrayOfStrings(<<"a.py", "b.py">>)
    /\ llmCalls = 0

\* the span from the first "[" to the last "]" of the trimmed response does
\* not exist or is no JSON array of strings
Unparsable(response) ==
    LET t == Trim(response)
        open == Find(t, {"["})
        close == RFind(t, {"]"})
    IN  \/ open = 0
        \/ close = 0
        \/ close < open
        \/ ~FromStrVecString(SubSeq(t, open, close)).ok

\* the first n entries of the sorted list of the set S
FirstSorted(list, S, n) ==
    \E full \in Orderings(S) :
        /\ IsSortedListOf(full, S)
        /\ list = Take(full, n)

\* C2: a File Selection step with more candidates than max_files whose
\* generation response is unparsable completes and writes the first max_files
\* entries of the sorted candidate list.
C2_UnparsableFallsBack ==
    (/\ last.kind = "select"
     /\ SearchesOk
     /\ Cardinality(MatchedUnion) > last.step.max_files
     /\ last.llm.ok
     /\ Unparsable(last.llm.text))
    => /\ last.status = "ok"
       /\ Output.t = "array"
       /\ FirstSorted(Output.s, MatchedUnion, last.step.max_files)

\* C3: after a successful File Selection step the list under the output key
\* has at most max_files entries.
C3_OutputWithinBudget ==
    (last.kind = "select" /\ last.status = "ok")
    => Len(Output.s) <= last.step.max_files

\* the list of paths the File Reading step of the last observation was given
SourceList == Get(last.before, last.step.source_key).s

\* the last observation is a File Reading step whose source key held a list
\* of paths
ReadOfList ==
    /\ last.kind = "read"
    /\ Has(last.before, last.step.source_key)
    /\ Get(last.before, last.step.source_key).t = "array"
    /\ Get(last.before, last.step.source_key).r = <<>>

\* the path cannot be read: it leaves the sandbox, or the file system holds
\* no readable regular file there
Unreadable(p) == ~ResolvesInside(p) \/ last.fs[p].kind # "file"

\* the path is read, and cutting its content at the ceiling splits a character
SplitsCharacter(p) ==
    /\ ~Unreadable(p)
    /\ last.fs[p].content.bytes > Ceiling
    /\ ~last.fs[p].content.boundary

\* C4: a File Reading step given a list of paths never fails because a path
\* is unreadable: whatever paths are unreadable, it completes unless a file
\* that was read makes the truncation panic; when it completes there is one
\* record per input path, each with exactly one of content and error, error
\* exactly for the unreadable paths.
C4_ReadNeverFailsOnUnreadable ==
    ReadOfList =>
       /\ (\A k \in 1..Len(SourceList) : ~SplitsCharacter(SourceList[k]))
             => last.status = "ok"
       /\ last.status # "err"
       /\ last.status = "ok" =>
             /\ Output.t = "array"
             /\ Len(Output.r) = Len(SourceList)
             /\ \A k \in 1..Len(SourceList) :
                   /\ "path" \in DOMAIN Output.r[k]
                   /\ ("content" \in DOMAIN Output.r[k]) # ("error" \in DOMAIN Output.r[k])
                   /\ ("error" \in DOMAIN Output.r[k]) <=> Unreadable(SourceList[k])

\* C4 witness: a completed File Reading step over four paths, one outside
\* the sandbox, one missing from the file system and one read
C4_Witness ==
    /\ ReadOfList
    /\ last.status = "ok"
    /\ Len(SourceList) = 4
    /\ \E a, b, c \in 1..4 :
          /\ ~ResolvesInside(SourceList[a])
          /\ ResolvesInside(SourceList[b]) /\ last.fs[SourceList[b]].kind = "missing"
          /\ "error" \in DOMAIN Output.r[a]
          /\ "error" \in DOMAIN Output.r[b]
          /\ "content" \in DOMAIN Output.r[c]

\* the tiers of extract_json that succeed on the trimmed text
SucceedingTiers(txt) == {k \in 1..4 : Tiers(Trim(txt))[k].kind = "ok"}

\* C5: extract_json fails only when all four tiers fail, and otherwise
\* returns the value of the first tier that succeeds.
C5_FirstSuccessWins ==
    hpc = "extracted" =>
       /\ extracted.ok <=> SucceedingTiers(text) # {}
       /\ SucceedingTiers(text) # {} =>
             extracted.val = Tiers(Trim(text))[Min(SucceedingTiers(text))].val

\* the context data after the writes ws were applied to data, in order
RECURSIVE ApplyWrites(_, _)
ApplyWrites(data, ws) ==
    IF ws = <<>> THEN data
    ELSE ApplyWrites([k \in (DOMAIN data) \cup {Head(ws).key} |->
                         IF k = Head(ws).key THEN Head(ws).value ELSE data[k]],
                     Tail(ws))

\* the sequence 1, 2, ..., n
UpTo(n) == [k \in 1..n |-> k]

\* C6: when a step fails the run ends at once with that failure: the failing
\* step is the last one invoked and was invoked once, the steps before it are
\* the completed ones, and the context holds exactly their writes.
C6_AbortOnFailure ==
    result.status \in {"err", "panic"} =>
       /\ pc = "done"
       /\ last.status = result.status
       /\ last.error = result.error
       /\ invoked = UpTo(last.idx)
       /\ completed = UpTo(last.idx - 1)
       /\ executing = {}
       /\ Len(written) = last.idx - 1
       /\ context.data = ApplyWrites(InitialContext("request").data, written)
       /\ context = last.before

\* C6 witness: the third step of a three-step pipeline failed after two
\* steps had written their results
C6_Witness ==
    /\ result.status = "err"
    /\ last.idx = 3
    /\ Len(written) = 2
    /\ Has(context, "files")
    /\ Has(context, "contents")
    /\ ~Has(context, "result")

\* C7: the steps run one at a time in array order: a step is invoked only
\* after its predecessor returned Ok, never twice, at most one is executing,
\* and a successful run has invoked every step exactly once.
C7_Sequential ==
    /\ Cardinality(executing) <= 1
    /\ invoked = UpTo(Len(invoked))
    /\ completed = UpTo(Len(completed))
    /\ Len(completed) <= Len(invoked)
    /\ Len(invoked) <= Len(completed) + 1
    /\ Len(invoked) <= Len(steps)
    /\ executing # {} => (executing = {Len(invoked)} /\ Len(invoked) = Len(completed) + 1)
    /\ result.status = "ok" => (invoked = UpTo(Len(steps)) /\ completed = UpTo(Len(steps)))

\* C7 witness: a three-step pipeline ran to success
C7_Witness ==
    /\ result.status = "ok"
    /\ Len(steps) = 3
    /\ invoked = <<1, 2, 3>>

\* the step of the last observation made a generate_content call
GenerationCalled ==
    \/ last.kind = "analyze"
    \/ (last.kind = "select" /\ SearchesOk
            /\ Cardinality(MatchedUnion) > last.step.max_files)

\* C8: when the generate_content call of a step fails, the step fails, the
\* context is as it was before the step and the run ends with that error.
C8_GenerationFailureAborts ==
    (GenerationCalled /\ ~last.llm.ok) =>
       /\ last.status = "err"
       /\ last.error = Error("generation failed", "")
       /\ context = last.before
       /\ result = [status |-> "err", error |-> last.error]
       /\ pc = "done"
       /\ invoked = UpTo(last.idx)

\* C8 witness: a File Selection step over budget whose generation call failed
C8_Witness ==
    /\ last.kind = "select"
    /\ SearchesOk
    /\ Cardinality(MatchedUnion) = 3
    /\ last.step.max_files = 2
    /\ ~last.llm.ok
    /\ last.calls = 1
    /\ result.status = "err"

\* C9: when the generate_content call of a Model Analysis step succeeds the
\* step completes, whatever the response, and the output key holds the value
\* extract_json returned or, if it failed, the response as a string; the
\* other entries are as before.
C9_AnalyzeNeverFailsOnShape ==
    (last.kind = "analyze" /\ last.llm.ok) =>
       /\ last.status = "ok"
       /\ Has(context, last.step.output_key)
       /\ IF extract_json(last.llm.text).ok
          THEN Output = JsonValue(extract_json(last.llm.text).val)
          ELSE Output = StringValue(last.llm.text)
       /\ \A k \in DOMAIN last.before.data :
             k # last.step.output_key => context.data[k] = last.before.data[k]

\* C9 witness: a Model Analysis step stored the raw text of a response that
\* starts like JSON and is none
C9_Witness ==
    /\ last.kind = "analyze"
    /\ last.llm = LlmOk(<<"{", "}", "x">>)
    /\ last.status = "ok"
    /\ Output = StringValue(<<"{", "}", "x">>)

\* C10: a File Reading step whose source key is absent returns the
\* key-not-found error, leaves the context as it was, and the run ends with
\* that error.
C10_MissingSourceKeyFails ==
    (last.kind = "read" /\ ~Has(last.before, last.step.source_key)) =>
       /\ last.status = "err"
       /\ last.error = Error("Key not found", last.step.source_key)
       /\ context = last.before
       /\ ~Has(context, last.step.output_key)
       /\ result = [status |-> "err", error |-> last.error]
       /\ pc = "done"
       /\ invoked = UpTo(last.idx)

\* C10 witness: a File Reading step ran on a context without its source key
C10_Witness ==
    /\ last.kind = "read"
    /\ ~Has(last.before, "files")
    /\ last.step.source_key = "files"
    /\ result.status = "err"

\* the output keys the steps of the pipeline are configured with
OutputKeys == {steps[k].output_key : k \in 1..Len(steps)}

\* C11: a run started from a seed context and ended successfully holds, for
\* every key of the seed that is no step's output key, the value the seed
\* held for it.
C11_SeedPreserved ==
    (result.status = "ok" /\ seed.some) =>
       \A k \in DOMAIN seed.ctx.data :
          k \notin OutputKeys =>
             (Has(context, k) /\ context.data[k] = seed.ctx.data[k])

\* C11 witness: a seeded run of two steps succeeded; the seed's tech_stack
\* entry is kept and its files entry, an output key, was overwritten
C11_Witness ==
    /\ result.status = "ok"
    /\ seed.some
    /\ Len(steps) = 2
    /\ "tech_stack" \in (DOMAIN seed.ctx.data) \ OutputKeys
    /\ context.data["tech_stack"] = seed.ctx.data["tech_stack"]
    /\ "files" \in (DOMAIN seed.ctx.data) \cap OutputKeys
    /\ context.data["files"] # seed.ctx.data["files"]

\* C12: the key set of the context never shrinks during a run: every key
\* present before a step of the run is present after it, whether the step
\* returned Ok or failed; values may change.
C12_KeysNeverRemoved ==
    [][(DOMAIN context.data) \subseteq (DOMAIN context'.data)]_vars

\* C12 witness: a step overwrote the value of a key the context already
\* held, and the other key is still there
C12_Witness ==
    /\ last.status = "ok"
    /\ Has(last.before, last.step.output_key)
    /\ context.data[last.step.output_key] # last.before.data[last.step.output_key]
    /\ (DOMAIN last.before.data) \ {last.step.output_key} # {}
    /\ (DOMAIN last.before.data) \subseteq (DOMAIN context.data)

\* the fraction a is at most the fraction b (denominators positive)
FracLeq(a, b) == a.num * b.den <= b.num * a.den

\* C13: a run notifies progress once before each step starts, with the
\* step's label, 100 * (k - 1) / n, k and n, and once more with 100 after
\* the last step completed: n + 1 notifications on success, percentages
\* non-decreasing and below 100 for all but the final one.
C13_ProgressNotifications ==
    LET n == Len(steps) IN
    /\ Len(invoked) <= Len(progressLog)
    /\ result.status # "ok" => Len(progressLog) = Len(invoked)
    /\ \A k \in 1..Len(progressLog) :
          k <= n =>
             /\ progressLog[k] = [label |-> Executing(StepName(steps[k])),
                                  percent |-> [num |-> 100 * (k - 1), den |-> n],
                                  step_num |-> k, total |-> n]
             /\ progressLog[k].percent.num < 100 * progressLog[k].percent.den
    /\ \A a, b \in 1..Len(progressLog) :
          a < b => FracLeq(progressLog[a].percent, progressLog[b].percent)
    /\ result.status = "ok" =>
          /\ Len(progressLog) = n + 1
          /\ completed = UpTo(n)
          /\ progressLog[n + 1].percent.num = 100 * progressLog[n + 1].percent.den

\* C13 witness: a three-step run succeeded with four notifications, the
\* third at 200/3 percent
C13_Witness ==
    /\ result.status = "ok"
    /\ Len(steps) = 3
    /\ Len(progressLog) = 4
    /\ progressLog[3].percent = [num |-> 200, den |-> 3]
    /\ progressLog[4].label = "Complete"

\* C14: a run is determined by the pipeline, the seed, the file-access
\* results and the generation responses: whatever order the candidate set
\* is iterated in, a File Selection step given the same context, search
\* results and generation response ends with the same status, error,
\* generation calls and context; the other steps take no further input.
C14_OrderIndependent ==
    last.kind = "select" =>
       \A order \in Orderings(Candidates(last.step, last.search)) :
          SelectFilesExecute(last.step, last.before, last.search, order, last.llm)
             = Outcome(last.status, last.error, context, last.calls)

\* C14 witness: three candidates, hence six iteration orders, over a budget
\* of two; the response was no list and the step stored the first two
\* candidates in sorted order
C14_Witness ==
    /\ last.kind = "select"
    /\ last.status = "ok"
    /\ Cardinality(Orderings(Candidates(last.step, last.search))) = 6
    /\ last.step.max_files = 2
    /\ last.llm.ok
    /\ Unparsable(last.llm.text)
    /\ Output = ArrayOfStrings(<<"a.py", "b.py">>)

\* the source keys of the Model Analysis step last executed that the context
\* held
PresentKeys == {k \in 1..Len(last.step.source_keys) :
                   Has(last.before, last.step.source_keys[k])}

\* C15: a Model Analysis execution makes exactly one generate_content call,
\* whatever the number of its source keys, whether or not the context holds
\* them, and whether or not the response holds JSON.
C15_OneGenerationCall ==
    last.kind = "analyze" =>
       /\ last.calls = 1
       /\ Len(last.prompt) = Cardinality(PresentKeys)

\* C15 witness: the only step of a run had four source keys, two present
\* and two absent, its response held no JSON, and one call was made
C15_Witness ==
    /\ last.kind = "analyze"
    /\ last.idx = 1
    /\ Len(last.step.source_keys) = 4
    /\ Cardinality(PresentKeys) = 2
    /\ last.llm.ok
    /\ ~extract_json(last.llm.text).ok
    /\ last.status = "ok"
    /\ llmCalls = 1

\* the lines of the given type printed so far
OutputsOfType(type) == SelectSeq(outputs, LAMBDA o : o.type = type)

\* the stages an analyze run goes through when nothing fails
StagesOfRun ==
    <<"tech_stack", "growth_features", "revenue_leakage", "industry">>
        \o (IF product_docs THEN <<"product_overview", "features", "docs_manifest">>
            ELSE <<"manifest">>)

\* C16: when a step of a pipeline of an analyze run has failed and the run
\* is over, the last line printed is the one Error line, carrying the
\* failing step's error; no Result line was printed, the failing pipeline
\* is the last one started and no manifest file was written.  A Result line
\* is printed only after all pipelines of the run returned Ok and the
\* manifest was written.
C16_FailureReported ==
    /\ (apc = "done" /\ result.status \in {"err", "panic"}) =>
          /\ Len(OutputsOfType("error")) = 1
          /\ outputs[Len(outputs)] = ErrorOutput(result.error)
          /\ OutputsOfType("result") = <<>>
          /\ started # <<>>
          /\ StageSteps(started[Len(started)]) = steps
          /\ \A k \in 1..Len(filesWritten) : filesWritten[k] # "growth-manifest.json"
    /\ OutputsOfType("result") # <<>> =>
          /\ started = StagesOfRun
          /\ result.status = "ok"
          /\ filesWritten # <<>>
          /\ filesWritten[Len(filesWritten)] = "growth-manifest.json"
          /\ OutputsOfType("error") = <<>>

\* the manifest pipeline of the analyze run was started and no step of it
\* has been called yet: context is the context it starts with
ManifestPipelineStarts ==
    /\ apc \in SeededStages
    /\ pc = "loop"
    /\ invoked = <<>>

\* the four analysis pipelines
AnalysisStages == {"tech_stack", "growth_features", "revenue_leakage", "industry"}

\* the pipelines whose result is copied for the manifest pipeline, each with
\* the key copied
HandedOver ==
    {<<"tech_stack", "tech_stack">>, <<"growth_features", "current_growth_features">>,
     <<"revenue_leakage", "revenue_leakage">>, <<"industry", "industry">>}
        \cup (IF product_docs
              THEN {<<"product_overview", "product_overview">>, <<"features", "features">>}
              ELSE {})

\* C17 as stated: the context the manifest pipeline starts with holds every
\* entry of the final contexts of the four analysis pipelines, unchanged.
C17_ContextsHandedOver ==
    ManifestPipelineStarts =>
       \A st \in AnalysisStages :
          \A k \in DOMAIN run_results[st].data :
             Has(context, k) /\ context.data[k] = run_results[st].data[k]

\* C17, amended: the context the manifest pipeline starts with holds the
\* result entry of each earlier pipeline (tech_stack, current_growth_features,
\* revenue_leakage, industry, and in product-docs mode product_overview and
\* features), unchanged, and no other entry: the file lists and the file
\* contents of those pipelines are not handed over.
C17_ResultsHandedOver ==
    ManifestPipelineStarts =>
       /\ \A h \in HandedOver :
             Has(run_results[h[1]], h[2]) =>
                (Has(context, h[2]) /\ context.data[h[2]] = run_results[h[1]].data[h[2]])
       /\ DOMAIN context.data = {h[2] : h \in HandedOver}
       /\ context.request = "Generate Manifest"

\* C17 witness: the manifest pipeline starts with the four results while
\* the tech-stack pipeline ended with its file list and contents as well
C17_Witness ==
    /\ ManifestPipelineStarts
    /\ apc = "manifest"
    /\ DOMAIN run_results["tech_stack"].data =
          {"tech_stack_files", "tech_stack_contents", "tech_stack"}
    /\ DOMAIN context.data =
          {"tech_stack", "current_growth_features", "revenue_leakage", "industry"}
    /\ context.data["tech_stack"] = run_results["tech_stack"].data["tech_stack"]

\* the working directory relative directories are resolved against
Cwd == [abs |-> TRUE, comps |-> <<"home", "u">>]

\* the absolute, normalised location of a path
Absolute(path) == Clean(Join(Cwd, path))

\* the path string rel, taken relative to the directory base with its
\* leading '/' characters stripped, resolves to a location outside base
ResolvesOutside(base, rel) ==
    ~PathStartsWith(Absolute(Join(base, TrimStartSlashes(rel))), Absolute(base))

\* C18: read_file fails, and returns no content, for every path string that
\* resolves outside the explorer's directory once its leading '/'
\* characters are stripped and "." and ".." are normalised, whatever the
\* file system holds there.
C18_OutsideNeverRead ==
    (hpc = "read" /\ ResolvesOutside(root, relative_path)) =>
       /\ ~access.ok
       /\ access.content = NoContent

\* the closer that matches an opener
MatchingCloser(opener) == IF opener = "{" THEN "}" ELSE "]"

\* tiers 1 to 3 fall through on the text and it holds an opener: tier 4
\* decides
Tier4Decides(txt) ==
    /\ \A k \in 1..3 : Tiers(Trim(txt))[k].kind = "skip"
    /\ Find(Trim(txt), Openers) # 0

\* C19: when extract_json gets as far as tier 4, it parses the span from
\* the first "{" or "[" to the last occurrence of the closer matching that
\* opener, closers of the other kind after it left out; without such a
\* closer after the opener no JSON is found.
C19_Tier4MatchingCloser ==
    (hpc = "extracted" /\ Tier4Decides(text)) =>
       LET t == Trim(text)
           start == Find(t, Openers)
           end == RFind(t, {MatchingCloser(t[start])})
           r == ReturnParsed(SubSeq(t, start, end))
       IN  IF end > start
           THEN extracted = [ok |-> r.kind = "ok", val |-> r.val]
           ELSE extracted = [ok |-> FALSE, val |-> <<>>]

\* C20: a File Reading step that completes stores one record for each path
\* of its input list, in the order of the list: the k-th record carries the
\* k-th path, read or not, and a path listed twice has two records.
C20_PathOrderPreserved ==
    (ReadOfList /\ last.status = "ok") =>
       /\ Output.t = "array"
       /\ Len(Output.r) = Len(SourceList)
       /\ \A k \in 1..Len(SourceList) : Output.r[k].path = SourceList[k]

\* C20 witness: a list of four paths with one path twice and one outside
\* the sandbox was read: four records, the first with content, the second
\* with an error, the fourth for the repeated path
C20_Witness ==
    /\ ReadOfList
    /\ last.status = "ok"
    /\ SourceList = <<"b.py", OutsidePath, "a.py", "b.py">>
    /\ Len(Output.r) = 4
    /\ "content" \in DOMAIN Output.r[1]
    /\ "error" \in DOMAIN Output.r[2]
    /\ Output.r[4].path = "b.py"

\* the number of characters of the file a stored content holds
KeptChars(stored) == IF stored.marker THEN stored.src.head ELSE stored.src.chars

\* C21: a File Reading step given a list of paths completes whatever the
\* files hold, and for every file read: a content of at most Ceiling
\* characters is stored unchanged, a longer one as its first Ceiling
\* characters followed by the truncation marker.
C21_TruncationByCharacters ==
    ReadOfList =>
       /\ last.status = "ok"
       /\ \A k \in 1..Len(Output.r) :
             "content" \in DOMAIN Output.r[k] =>
                LET stored == Output.r[k].content
                IN  IF stored.src.chars <= Ceiling
                    THEN ~stored.marker /\ stored.kept = stored.src.bytes
                    ELSE stored.marker /\ KeptChars(stored) = Ceiling

\* C22: a step execution writes at most the entry under its output key:
\* after a step that returned Ok the context holds the keys it held before
\* and the output key, every other entry and the request are as before;
\* after a step that failed the whole context is as before.
C22_OneWritePerStep ==
    last.kind # "none" =>
       IF last.status = "ok"
       THEN /\ DOMAIN context.data = (DOMAIN last.before.data) \cup {last.step.output_key}
            /\ \A k \in DOMAIN last.before.data :
                  k # last.step.output_key => context.data[k] = last.before.data[k]
            /\ context.request = last.before.request
       ELSE context = last.before

\* C22 witness: the third step of a pipeline wrote its result next to the
\* two entries of the steps before it
C22_Witness ==
    /\ last.idx = 3
    /\ last.status = "ok"
    /\ DOMAIN last.before.data = {"files", "contents"}
    /\ DOMAIN context.data = {"files", "contents", "result"}
    /\ context.data["contents"] = last.before.data["contents"]

\* the source keys of the Model Analysis step last executed that the context
\* held, in the configured order
PresentSourceKeys ==
    SelectSeq(last.step.source_keys, LAMBDA k : Has(last.before, k))

\* C23: a Model Analysis step skips the source keys the context does not
\* hold: it does not fail on them (it completes whenever the generation
\* call succeeds), the prompt has one section for each present key and none
\* for an absent one, in the configured order, each built from the value
\* held, and with every key absent the prompt is the template alone.
C23_AbsentKeysSkipped ==
    last.kind = "analyze" =>
       /\ last.llm.ok => last.status = "ok"
       /\ Len(last.prompt) = Len(PresentSourceKeys)
       /\ \A k \in 1..Len(last.prompt) :
             last.prompt[k] =
                PromptSection(PresentSourceKeys[k], last.before.data[PresentSourceKeys[k]])
       /\ PresentSourceKeys = <<>> => last.prompt = <<>>

\* C23 witness: of four source keys the first and the last were present
\* and the two between them absent; the prompt has the two sections in order
C23_Witness ==
    /\ last.kind = "analyze"
    /\ last.status = "ok"
    /\ Len(last.step.source_keys) = 4
    /\ PresentSourceKeys = <<"tech_stack", "industry">>
    /\ Len(last.prompt) = 2
    /\ last.prompt[1].key = "tech_stack"
    /\ last.prompt[2].key = "industry"

\* the metadata the context holds when run_with_context is entered
MetadataAtStart == IF seed.some THEN seed.ctx.metadata ELSE DefaultMetadata

\* C24: once a run has started, and until it is over, the metadata names
\* the model and the provider of the generation capability and the number
\* of steps of the pipeline being run, seeded or not, and the files-read
\* list and the token counter are those of the run's start: no step
\* execution changes a metadata field.
C24_MetadataByExecutor ==
    /\ pc \in {"loop", "exec", "done"} =>
          context.metadata = [model_name |-> ModelName,
                              provider_name |-> ProviderName,
                              total_steps |-> Len(steps),
                              files_read |-> MetadataAtStart.files_read,
                              tokens_used |-> MetadataAtStart.tokens_used]
    /\ last.kind # "none" => context.metadata = last.before.metadata

\* C24 witness: a two-step run seeded by a run of three steps of another
\* model ended successfully
C24_Witness ==
    /\ result.status = "ok"
    /\ seed.some
    /\ seed.ctx.metadata.total_steps = 3
    /\ seed.ctx.metadata.model_name # ModelName
    /\ Len(steps) = 2
    /\ context.metadata.total_steps = 2
    /\ context.metadata.files_read = <<"a.py">>
    /\ last.idx = 2

\* the run returned the final context after every step ran to completion
ReturnedContext ==
    /\ pc = "done"
    /\ result.status = "ok"
    /\ completed = UpTo(Len(steps))

\* the run returned the error of the first step that failed
ReturnedError ==
    /\ pc = "done"
    /\ result.status = "err"
    /\ result.error = last.error
    /\ completed = UpTo(last.idx - 1)

\* C25: a run whose calls all return ends in one of exactly two outcomes:
\* the final context returned after all steps ran to completion, or the
\* error of the first failing step returned; so every ended run is in one
\* of the two.
C25_Terminates == pc = "done" => (ReturnedContext \/ ReturnedError)

\* C26: every path a File Selection step writes under its output key is one
\* of the candidates its patterns matched in that invocation, also when the
\* list is the parsed generation response.
C26_SelectedAreCandidates ==
    (last.kind = "select" /\ last.status = "ok")
    => \A k \in 1..Len(Output.s) : Output.s[k] \in MatchedUnion

\* the final notification was emitted
CompleteEmitted == \E k \in 1..Len(progressLog) : progressLog[k].label = "Complete"

\* C27: when step k of a run fails, the executor has emitted exactly k
\* progress notifications, with step indices 1..k in order, and none of
\* them is the final "Complete" one; the "Complete" notification is emitted
\* if and only if the run returns successfully.
C27_NotificationsUpToFailure ==
    /\ (pc = "done" /\ result.status # "ok") =>
          /\ Len(progressLog) = last.idx
          /\ \A k \in 1..Len(progressLog) :
                /\ progressLog[k].step_num = k
                /\ progressLog[k].label = Executing(StepName(steps[k]))
    /\ CompleteEmitted <=> result.status = "ok"
    /\ CompleteEmitted =>
          /\ progressLog[Len(progressLog)].label = "Complete"
          /\ progressLog[Len(progressLog)].percent = [num |-> 100, den |-> 1]
          /\ \A k \in 1..(Len(progressLog) - 1) : progressLog[k].label # "Complete"

\* C27 witness: the second step of a two-step run returned an error after
\* two notifications
C27_Witness ==
    /\ pc = "done"
    /\ result.status = "err"
    /\ Len(steps) = 2
    /\ last.idx = 2
    /\ Len(progressLog) = 2
    /\ progressLog[2].step_num = 2
    /\ ~CompleteEmitted

\* the run that just ended was of a pipeline whose last step is a Model
\* Analysis step, and it returned Ok
AnalysisPipelineReturned ==
    /\ pc = "done"
    /\ result.status = "ok"
    /\ Len(steps) > 0
    /\ steps[Len(steps)].kind = "analyze"

\* C28: when a pipeline whose last step is a Model Analysis step returns
\* successfully, that step's output key is present in the returned context;
\* so an analyze run always finds the manifest key ("manifest", or
\* "docs_manifest" in product-docs mode) after its manifest pipeline
\* succeeded and never fails with "Failed to generate manifest".
C28_ManifestAlwaysFound ==
    /\ AnalysisPipelineReturned => Has(context, steps[Len(steps)].output_key)
    /\ (AnalysisPipelineReturned /\ apc = "manifest") => Has(context, "manifest")
    /\ (AnalysisPipelineReturned /\ apc = "docs_manifest") => Has(context, "docs_manifest")
    /\ apc = "write" => manifest_json.some
    /\ \A k \in 1..Len(outputs) :
          outputs[k].type = "error" => outputs[k].error.msg # "Failed to generate manifest"

\* C28 witness: the manifest pipeline of a product-docs run returned and its
\* value, no JSON the analysis could extract, is about to be written
C28_Witness ==
    /\ apc = "write"
    /\ product_docs
    /\ manifest_json.some
    /\ manifest_json.value = Get(run_results["docs_manifest"], "docs_manifest")
    /\ manifest_json.value.t = "string"

\* the pipelines the analyzers create
ShippedPipelines == {StageSteps(stage) : stage \in Stages}

\* step k of pipeline is a File Reading step fed by an earlier File
\* Selection step
FedBySelection(pipeline, k) ==
    \E j \in 1..(k - 1) :
       /\ pipeline[j].kind = "select"
       /\ pipeline[j].output_key = pipeline[k].source_key

\* C29: in every shipped pipeline the source key of a File Reading step is
\* the output key of an earlier File Selection step of that pipeline, and
\* File Selection always writes a list of strings; so in the shipped
\* pipelines File Reading never fails with a key-not-found error or a
\* malformed source value.
C29_ShippedReadsFed ==
    /\ \A pipeline \in ShippedPipelines :
          \A k \in 1..Len(pipeline) :
             pipeline[k].kind = "read" => FedBySelection(pipeline, k)
    /\ (last.kind = "select" /\ last.status = "ok") =>
          /\ Output = ArrayOfStrings(Output.s)
          /\ FromValueVecString(Output).ok
    /\ (last.kind = "read" /\ steps \in ShippedPipelines) =>
          /\ Has(last.before, last.step.source_key)
          /\ FromValueVecString(Get(last.before, last.step.source_key)).ok
          /\ last.error.msg \notin {"Key not found",
                                     "invalid type: expected a sequence of strings"}

\* C29 witness: the File Reading step of the growth-features pipeline read
\* the two paths its File Selection step had taken from the response
C29_Witness ==
    /\ apc = "growth_features"
    /\ last.kind = "read"
    /\ last.status = "ok"
    /\ last.step.source_key = "growth_files"
    /\ Len(SourceList) = 2
    /\ last.before.data["growth_files"] = written[1].value

\* the progress values of the Progress lines printed so far, in hundredths,
\* in emission order
ProgressValues ==
    LET lines == OutputsOfType("progress")
    IN  [k \in 1..Len(lines) |-> lines[k].progress]

\* C30: in an analyze run the progress values of the Progress outputs are
\* non-decreasing in emission order and each lies between 0 and 1 (0 and 100
\* hundredths), whichever pipelines run, in product-docs and in plain
\* manifest mode, and up to the point of any failure.
C30_ProgressMonotone ==
    /\ \A k \in 1..Len(ProgressValues) :
          ProgressValues[k] >= 0 /\ ProgressValues[k] <= 100
    /\ \A a, b \in 1..Len(ProgressValues) :
          a < b => ProgressValues[a] <= ProgressValues[b]

\* C30 witness: a product-docs run failed in its docs-manifest pipeline
\* after the values 0.8, 0.85, 0.9 and 0.95 had been printed in this order
C30_Witness ==
    /\ product_docs
    /\ exit = "error"
    /\ \E a \in 1..Len(ProgressValues) :
          /\ a + 3 <= Len(ProgressValues)
          /\ ProgressValues[a] = 80
          /\ ProgressValues[a + 1] = 85
          /\ ProgressValues[a + 2] = 90
          /\ ProgressValues[a + 3] = 95
    /\ ProgressValues[Len(ProgressValues)] = 95
    /\ ProgressValues[1] = 10

====
